---- MODULE Spec2Model ----
(***************************************************************************)
(* Model of maze_solver: the cell grid (models/), the grid-to-graph        *)
(* conversion (graphs/converter.py) and the shortest-path layer            *)
(* (graphs/solver.py, which drives networkx's bidirectional Dijkstra and   *)
(* its predecessor-based enumeration of all shortest paths).               *)
(*                                                                         *)
(* A graph node is a Square; inside one maze a Square is identified by its *)
(* index (validate_indices), so the search state holds indices and the     *)
(* results hold the Square records themselves.                             *)
(***************************************************************************)
EXTENDS Integers, Sequences, FiniteSets, TLC

(* ---------------------------------------------------------------------- *)
(* models/role.py, models/border.py                                        *)
(* ---------------------------------------------------------------------- *)
NONE == 0
ENEMY == 1
ENTRANCE == 2
EXIT == 3
EXTERIOR == 4
REWARD == 5
WALL == 6

Role == {NONE, ENEMY, ENTRANCE, EXIT, EXTERIOR, REWARD, WALL}

EMPTY == 0
TOP == 1
BOTTOM == 2
LEFT == 4
RIGHT == 8

Border == 0..15

\* border & flag, for a one-bit flag
HasBit(border, flag) == (border \div flag) % 2 = 1

\* int.bit_count() of a four-bit value
BitCount(border) ==
    (border % 2) + ((border \div 2) % 2) + ((border \div 4) % 2) + ((border \div 8) % 2)

\* a | b for two distinct one-bit flags
BitOr(a, b) == a + b

CornerBorders == {BitOr(TOP, LEFT), BitOr(TOP, RIGHT), BitOr(BOTTOM, LEFT), BitOr(BOTTOM, RIGHT)}

corner(border) == border \in CornerBorders

\* As dead_end, but "at least three"
dead_end_AtLeastThree(border) == BitCount(border) >= 3

dead_end(border) == BitCount(border) = 3

intersection(border) == BitCount(border) < 2

(* ---------------------------------------------------------------------- *)
(* models/square.py, models/maze.py                                        *)
(* ---------------------------------------------------------------------- *)
Square(index, row, column, border, role) ==
    [index |-> index, row |-> row, column |-> column, border |-> border, role |-> role]

SetMax(S) == CHOOSE m \in S : \A n \in S : n <= m

\* max(square.column for square in self) + 1
width(sqs) == SetMax({sqs[i].column : i \in 1..Len(sqs)}) + 1

\* max(square.row for square in self) + 1
height(sqs) == SetMax({sqs[i].row : i \in 1..Len(sqs)}) + 1

\* next(sq for sq in self if sq.role is role): the first match, or StopIteration
HasRole(sqs, role) == \E i \in 1..Len(sqs) : sqs[i].role = role

FirstWithRole(sqs, role) ==
    sqs[CHOOSE i \in 1..Len(sqs) :
            /\ sqs[i].role = role
            /\ \A j \in 1..(i - 1) : sqs[j].role # role]

entrance(sqs) == FirstWithRole(sqs, ENTRANCE)

exit(sqs) == FirstWithRole(sqs, EXIT)

validate_indices(sqs) == \A i \in 1..Len(sqs) : sqs[i].index = i - 1

validate_rows_columns(sqs) ==
    \A y \in 0..(height(sqs) - 1) : \A x \in 0..(width(sqs) - 1) :
        LET i == y * width(sqs) + x IN
        /\ i < Len(sqs)
        /\ sqs[i + 1].row = y
        /\ sqs[i + 1].column = x

\* Maze.__post_init__: the two validations it calls
MazePostInit(sqs) == validate_indices(sqs) /\ validate_rows_columns(sqs)

(* ---------------------------------------------------------------------- *)
(* graphs/converter.py                                                     *)
(* ---------------------------------------------------------------------- *)
\* The squares of the maze, by index
Sq(sqs, i) == sqs[i + 1]

IsNode(square) ==
    IF square.role \in {EXTERIOR, WALL} THEN FALSE
    ELSE \/ square.role # NONE
         \/ intersection(square.border)
         \/ dead_end(square.border)
         \/ corner(square.border)

\* get_nodes: the indices of the squares selected as nodes
get_nodes(sqs) == {i \in 0..(Len(sqs) - 1) : IsNode(Sq(sqs, i))}

\* As FollowRight, but a RIGHT border does not stop the walk
RECURSIVE FollowRight_ThroughWalls(_, _, _, _, _)
FollowRight_ThroughWalls(sqs, nodes, source, node, x_pos) ==
    IF x_pos >= width(sqs) THEN {}
    ELSE LET following == sqs[node.row * width(sqs) + x_pos + 1] IN
         IF following.index \in nodes THEN {<<source, following.index>>}
         ELSE FollowRight_ThroughWalls(sqs, nodes, source, following, x_pos + 1)

\* "Follow right": node is the square reached so far, x_pos the next column
RECURSIVE FollowRight(_, _, _, _, _)
FollowRight(sqs, nodes, source, node, x_pos) ==
    IF x_pos >= width(sqs) THEN {}
    ELSE IF HasBit(node.border, RIGHT) THEN {}
    ELSE LET following == sqs[node.row * width(sqs) + x_pos + 1] IN
         IF following.index \in nodes THEN {<<source, following.index>>}
         ELSE FollowRight(sqs, nodes, source, following, x_pos + 1)

\* As FollowDown, but only the BOTTOM border of the source stops the walk
RECURSIVE FollowDown_SourceBorder(_, _, _, _, _)
FollowDown_SourceBorder(sqs, nodes, source, node, y_pos) ==
    IF y_pos >= height(sqs) THEN {}
    ELSE IF HasBit(sqs[source + 1].border, BOTTOM) THEN {}
    ELSE LET following == sqs[y_pos * width(sqs) + node.column + 1] IN
         IF following.index \in nodes THEN {<<source, following.index>>}
         ELSE FollowDown_SourceBorder(sqs, nodes, source, following, y_pos + 1)

\* "Follow down": node is the square reached so far, y_pos the next row
RECURSIVE FollowDown(_, _, _, _, _)
FollowDown(sqs, nodes, source, node, y_pos) ==
    IF y_pos >= height(sqs) THEN {}
    ELSE IF HasBit(node.border, BOTTOM) THEN {}
    ELSE LET following == sqs[y_pos * width(sqs) + node.column + 1] IN
         IF following.index \in nodes THEN {<<source, following.index>>}
         ELSE FollowDown(sqs, nodes, source, following, y_pos + 1)

\* As get_edges, but the walks start on the square of the node itself
get_edges_FromTheNode(sqs, nodes) ==
    UNION {FollowRight(sqs, nodes, s, Sq(sqs, s), Sq(sqs, s).column)
           \cup FollowDown(sqs, nodes, s, Sq(sqs, s), Sq(sqs, s).row) : s \in nodes}

\* As get_edges, but without "Follow down"
get_edges_RightOnly(sqs, nodes) ==
    UNION {FollowRight(sqs, nodes, s, Sq(sqs, s), Sq(sqs, s).column + 1) : s \in nodes}

\* get_edges: pairs <<node1, node2>> of node indices
get_edges(sqs, nodes) ==
    UNION {FollowRight(sqs, nodes, s, Sq(sqs, s), Sq(sqs, s).column + 1)
           \cup FollowDown(sqs, nodes, s, Sq(sqs, s), Sq(sqs, s).row + 1) : s \in nodes}

\* Edge.flip
flip(edge) == <<edge[2], edge[1]>>

\* As get_directed_edges, but without the flipped edges
get_directed_edges_NoFlip(sqs, nodes) == get_edges(sqs, nodes)

\* get_directed_edges
get_directed_edges(sqs, nodes) ==
    LET edges == get_edges(sqs, nodes) IN edges \cup {flip(e) : e \in edges}

\* floor of the square root; exact on the perfect squares
ISqrt(n) == CHOOSE r \in 0..n : r * r <= n /\ (r + 1) * (r + 1) > n

\* Edge.distance: math.dist of the two (row, column) points
distance(sqs, edge) ==
    LET n1 == Sq(sqs, edge[1])
        n2 == Sq(sqs, edge[2])
    IN ISqrt((n1.row - n2.row) * (n1.row - n2.row)
             + (n1.column - n2.column) * (n1.column - n2.column))

bonus == 1
penalty == 2

\* As weight, but with bonus and penalty swapped
weight_Swapped(sqs, edge) ==
    LET role == Sq(sqs, edge[2]).role IN
    IF role = REWARD THEN distance(sqs, edge) - penalty
    ELSE IF role = ENEMY THEN distance(sqs, edge) + bonus
    ELSE distance(sqs, edge)

\* As weight, but with a bonus of two
weight_BonusOfTwo(sqs, edge) ==
    LET role == Sq(sqs, edge[2]).role IN
    IF role = REWARD THEN distance(sqs, edge) - 2 * bonus
    ELSE IF role = ENEMY THEN distance(sqs, edge) + penalty
    ELSE distance(sqs, edge)

\* As weight, but by the role of node1
weight_OfSource(sqs, edge) ==
    LET role == Sq(sqs, edge[1]).role IN
    IF role = REWARD THEN distance(sqs, edge) - bonus
    ELSE IF role = ENEMY THEN distance(sqs, edge) + penalty
    ELSE distance(sqs, edge)

\* Edge.weight with the default bonus and penalty
weight(sqs, edge) ==
    LET role == Sq(sqs, edge[2]).role IN
    IF role = REWARD THEN distance(sqs, edge) - bonus
    ELSE IF role = ENEMY THEN distance(sqs, edge) + penalty
    ELSE distance(sqs, edge)

\* nx.DiGraph(edge triples): the vertices are the endpoints of the arcs
EmptyGraph == [node |-> {}, adj |-> <<>>]

\* As make_graph, but with every node added as a vertex
make_graph_EveryNode(sqs) ==
    LET arcs == get_directed_edges(sqs, get_nodes(sqs)) IN
    [node |-> get_nodes(sqs), adj |-> [e \in arcs |-> weight(sqs, e)]]

make_graph(sqs) ==
    LET arcs == get_directed_edges(sqs, get_nodes(sqs)) IN
    [node |-> {e[1] : e \in arcs} \cup {e[2] : e \in arcs},
     adj  |-> [e \in arcs |-> weight(sqs, e)]]

Arcs(G) == DOMAIN G.adj

succ(G, v) == {e[2] : e \in {a \in Arcs(G) : a[1] = v}}

pred(G, v) == {e[1] : e \in {a \in Arcs(G) : a[2] = v}}

(* ---------------------------------------------------------------------- *)
(* models/solution.py                                                      *)
(* ---------------------------------------------------------------------- *)
\* As validate_corridor, but with all() for any()
validate_corridor_Both(current, following) ==
    current.row = following.row /\ current.column = following.column

\* validate_corridor: the assertion on one consecutive pair
validate_corridor(current, following) ==
    current.row = following.row \/ current.column = following.column

\* As SolutionPostInit, but without the assertion on the last square
SolutionPostInit_FirstOnly(sqs) ==
    IF Len(sqs) = 0 THEN "IndexError"
    ELSE IF sqs[1].role # ENTRANCE THEN "AssertionError"
    ELSE IF \E i \in 1..(Len(sqs) - 1) : ~validate_corridor(sqs[i], sqs[i + 1])
    THEN "AssertionError"
    ELSE "ok"

\* Solution.__post_init__: how the construction ends.  squares[0] of an empty
\* tuple is an IndexError; the two role assertions and the first failing
\* validate_corridor of reduce(validate_corridor, squares) are AssertionErrors
SolutionPostInit(sqs) ==
    IF Len(sqs) = 0 THEN "IndexError"
    ELSE IF sqs[1].role # ENTRANCE THEN "AssertionError"
    ELSE IF sqs[Len(sqs)].role # EXIT THEN "AssertionError"
    ELSE IF \E i \in 1..(Len(sqs) - 1) : ~validate_corridor(sqs[i], sqs[i + 1])
    THEN "AssertionError"
    ELSE "ok"

(* ---------------------------------------------------------------------- *)
(* State                                                                   *)
(* ---------------------------------------------------------------------- *)
VARIABLES
    squares,    \* Maze.squares of the maze under work
    pc,         \* position of the running call; "idle" between calls
    graph,      \* the DiGraph of the running call (empty between calls)
    bd,         \* working state of nx.bidirectional_dijkstra (solve)
    dj,         \* working state of nx's _dijkstra_multisource (solve_all)
    best,       \* outcome of solve
    all,        \* outcome of solve_all
    nodes,      \* get_nodes(maze) of the running call
    candidate,  \* the tuple of squares a Solution is constructed from
    made,       \* outcome of that construction
    cache,      \* the maze's cached_property values (its __dict__ entries)
    call,       \* an operation on a Maze under study and its argument
    outcome,    \* outcome of that operation
    file,       \* the bytes of the maze file
    load,       \* working state of Maze.load
    previous,   \* outcome of the solve_all call before the last one
    pending,    \* a cached_property value computed and not stored yet
    second      \* the solver state of a second thread while the first runs

vars == <<squares, pc, graph, bd, dj, best, all, nodes, candidate, made,
          cache, call, outcome, file, load, previous, pending, second>>

\* What the solver calls leave alone
construction == <<candidate, made>>
others == <<construction, call, outcome, file, load, previous, pending, second>>

\* Outcomes of a call: not made yet, a returned value, or an exception that
\* leaves the call
Unset == [kind |-> "unset", value |-> <<>>]
ReturnNone == [kind |-> "none", value |-> <<>>]
Return(v) == [kind |-> "return", value |-> v]
Raise(exc) == [kind |-> "raise", value |-> exc]

\* Solution(squares=...): the Solution, or the exception of __post_init__
Solution(sqs) ==
    IF SolutionPostInit(sqs) = "ok" THEN Return(sqs) ELSE Raise(SolutionPostInit(sqs))

\* As SolutionOf, but from the last node of the path to the first
SolutionOf_Reversed(sqs, path) == [i \in 1..Len(path) |-> Sq(sqs, path[Len(path) + 1 - i])]

\* tuple(path), for a path of node indices
SolutionOf(sqs, path) == [i \in 1..Len(path) |-> Sq(sqs, path[i])]

(* ---------------------------------------------------------------------- *)
(* dict and heap helpers used by the two searches                          *)
(* ---------------------------------------------------------------------- *)
EmptyDict == <<>>

Put(d, k, v) == [x \in (DOMAIN d) \cup {k} |-> IF x = k THEN v ELSE d[x]]

\* A heap of (distance, counter, node) entries, kept as the sequence of its
\* entries in counter order: heappop takes the least distance, and among
\* equal distances the least counter, that is the earliest entry
HeapTop(fringe) ==
    CHOOSE i \in 1..Len(fringe) :
        /\ \A j \in 1..Len(fringe) : fringe[i].dist <= fringe[j].dist
        /\ \A j \in 1..(i - 1) : fringe[j].dist > fringe[i].dist

HeapRemove(fringe, i) ==
    [j \in 1..(Len(fringe) - 1) |-> IF j < i THEN fringe[j] ELSE fringe[j + 1]]

HeapPush(fringe, d, v) == Append(fringe, [dist |-> d, node |-> v])

Reverse(s) == [i \in 1..Len(s) |-> s[Len(s) + 1 - i]]

\* The orders in which a dict of neighbours can be iterated: the DiGraph is
\* filled from a set of edges, whose iteration order is not fixed
Orders(S) ==
    {o \in [1..Cardinality(S) -> S] : \A i, j \in 1..Cardinality(S) : i # j => o[i] # o[j]}

(* ---------------------------------------------------------------------- *)
(* nx.bidirectional_dijkstra, as driven by nx.shortest_path(G, source,     *)
(* target, weight="weight") in solve.  Direction 0 is forward (G._succ),   *)
(* direction 1 is backward (G._pred); the pairs below hold the forward     *)
(* value first.                                                            *)
(* ---------------------------------------------------------------------- *)
BDIdle ==
    [dists |-> <<EmptyDict, EmptyDict>>, paths |-> <<EmptyDict, EmptyDict>>,
     fringe |-> <<<<>>, <<>>>>, seen |-> <<EmptyDict, EmptyDict>>,
     finaldist |-> 0, finalpath |-> <<>>, dir |-> 1, error |-> FALSE]

BDStart(source, target) ==
    [dists |-> <<EmptyDict, EmptyDict>>,
     paths |-> <<Put(EmptyDict, source, <<source>>), Put(EmptyDict, target, <<target>>)>>,
     fringe |-> <<HeapPush(<<>>, 0, source), HeapPush(<<>>, 0, target)>>,
     seen |-> <<Put(EmptyDict, source, 0), Put(EmptyDict, target, 0)>>,
     finaldist |-> 0, finalpath |-> <<>>, dir |-> 1, error |-> FALSE]

neighs(G, dir, v) == IF dir = 0 THEN succ(G, v) ELSE pred(G, v)

\* weight(v, w, d) forward, weight(w, v, d) backward
BDCost(G, dir, v, w) == IF dir = 0 THEN G.adj[<<v, w>>] ELSE G.adj[<<w, v>>]

\* As BDImproves, but the first path found is kept whatever comes later
BDImproves_FirstFound(st, totaldist) == st.finalpath = <<>>

\* if finalpath == [] or finaldist > totaldist
BDImproves(st, totaldist) == st.finalpath = <<>> \/ st.finaldist > totaldist

\* As BDRelaxOne, but the reversed half keeps the meeting node
BDRelaxOne_MeetingTwice(G, st, dir, v, w) ==
    LET k == dir + 1
        vwLength == st.dists[k][v] + BDCost(G, dir, v, w)
    IN
    IF w \in DOMAIN st.dists[k]
    THEN IF vwLength < st.dists[k][w] THEN [st EXCEPT !.error = TRUE] ELSE st
    ELSE IF w \notin DOMAIN st.seen[k] \/ vwLength < st.seen[k][w]
    THEN LET relaxed == [st EXCEPT !.seen[k] = Put(@, w, vwLength),
                                   !.fringe[k] = HeapPush(@, vwLength, w),
                                   !.paths[k] = Put(@, w, Append(st.paths[k][v], w))]
         IN
         IF w \in DOMAIN relaxed.seen[1] /\ w \in DOMAIN relaxed.seen[2]
         THEN LET totaldist == relaxed.seen[1][w] + relaxed.seen[2][w] IN
              IF BDImproves(relaxed, totaldist)
              THEN [relaxed EXCEPT !.finaldist = totaldist,
                                   !.finalpath = relaxed.paths[1][w]
                                                 \o Reverse(relaxed.paths[2][w])]
              ELSE relaxed
         ELSE relaxed
    ELSE st

\* The body of "for w, d in neighs[dir][v].items()" for one neighbour w
BDRelaxOne(G, st, dir, v, w) ==
    LET k == dir + 1
        vwLength == st.dists[k][v] + BDCost(G, dir, v, w)
    IN
    IF w \in DOMAIN st.dists[k]
    THEN IF vwLength < st.dists[k][w] THEN [st EXCEPT !.error = TRUE] ELSE st
    ELSE IF w \notin DOMAIN st.seen[k] \/ vwLength < st.seen[k][w]
    THEN LET relaxed == [st EXCEPT !.seen[k] = Put(@, w, vwLength),
                                   !.fringe[k] = HeapPush(@, vwLength, w),
                                   !.paths[k] = Put(@, w, Append(st.paths[k][v], w))]
         IN
         IF w \in DOMAIN relaxed.seen[1] /\ w \in DOMAIN relaxed.seen[2]
         THEN LET totaldist == relaxed.seen[1][w] + relaxed.seen[2][w] IN
              IF BDImproves(relaxed, totaldist)
              THEN [relaxed EXCEPT !.finaldist = totaldist,
                                   !.finalpath = relaxed.paths[1][w]
                                                 \o Tail(Reverse(relaxed.paths[2][w]))]
              ELSE relaxed
         ELSE relaxed
    ELSE st

\* The whole for loop, over the neighbours in the given order; a raised
\* ValueError ends it
RECURSIVE BDRelax(_, _, _, _, _)
BDRelax(G, st, dir, v, order) ==
    IF order = <<>> \/ st.error THEN st
    ELSE BDRelax(G, BDRelaxOne(G, st, dir, v, Head(order)), dir, v, Tail(order))

(* ---------------------------------------------------------------------- *)
(* nx.all_shortest_paths(G, source, target, weight="weight") in solve_all: *)
(* dijkstra_predecessor_and_distance (the _dijkstra_multisource loop with  *)
(* pred and no target), then _build_paths_from_predecessors.               *)
(* ---------------------------------------------------------------------- *)
DJIdle == [dist |-> EmptyDict, seen |-> EmptyDict, pred |-> EmptyDict,
           fringe |-> <<>>, error |-> FALSE]

DJStart(source) ==
    [dist |-> EmptyDict, seen |-> Put(EmptyDict, source, 0),
     pred |-> Put(EmptyDict, source, <<>>),
     fringe |-> HeapPush(<<>>, 0, source), error |-> FALSE]

\* As DJRelaxOne, but a successor whose distance is already final gets no
\* further predecessor
DJRelaxOne_FinalKeepsPred(G, st, v, u) ==
    LET vu_dist == st.dist[v] + G.adj[<<v, u>>] IN
    IF u \in DOMAIN st.dist
    THEN IF vu_dist < st.dist[u] THEN [st EXCEPT !.error = TRUE] ELSE st
    ELSE IF u \notin DOMAIN st.seen \/ vu_dist < st.seen[u]
    THEN [st EXCEPT !.seen = Put(@, u, vu_dist),
                    !.fringe = HeapPush(@, vu_dist, u),
                    !.pred = Put(@, u, <<v>>)]
    ELSE IF vu_dist = st.seen[u] THEN [st EXCEPT !.pred[u] = Append(@, v)]
    ELSE st

\* The body of "for u, e in G_succ[v].items()" for one successor u
DJRelaxOne(G, st, v, u) ==
    LET vu_dist == st.dist[v] + G.adj[<<v, u>>] IN
    IF u \in DOMAIN st.dist
    THEN IF vu_dist < st.dist[u] THEN [st EXCEPT !.error = TRUE]
         ELSE IF vu_dist = st.dist[u] THEN [st EXCEPT !.pred[u] = Append(@, v)]
         ELSE st
    ELSE IF u \notin DOMAIN st.seen \/ vu_dist < st.seen[u]
    THEN [st EXCEPT !.seen = Put(@, u, vu_dist),
                    !.fringe = HeapPush(@, vu_dist, u),
                    !.pred = Put(@, u, <<v>>)]
    ELSE IF vu_dist = st.seen[u] THEN [st EXCEPT !.pred[u] = Append(@, v)]
    ELSE st

RECURSIVE DJRelax(_, _, _, _)
DJRelax(G, st, v, order) ==
    IF order = <<>> \/ st.error THEN st
    ELSE DJRelax(G, DJRelaxOne(G, st, v, Head(order)), v, Tail(order))

Range(s) == {s[i] : i \in DOMAIN s}

\* As BuildPaths, but only the first predecessor of each node is followed
RECURSIVE BuildPaths_FirstPredOnly(_, _, _, _)
BuildPaths_FirstPredOnly(preds, sources, stack, i) ==
    LET node == stack[Len(stack)]
        found == IF i = 1 /\ node \in sources THEN <<Reverse(stack)>> ELSE <<>>
    IN
    IF i > Len(preds[node]) \/ i > 1 THEN found
    ELSE LET following == preds[node][i] IN
         found
         \o (IF following \in Range(stack) THEN <<>>
             ELSE BuildPaths_FirstPredOnly(preds, sources, Append(stack, following), 1))

\* _build_paths_from_predecessors: the depth-first walk back from the target.
\* stack holds the nodes from the target to the current node (they are the
\* "seen" set of the walk); i is the next predecessor of the current node to
\* try.  The result is the list of the yielded paths, in yield order.
RECURSIVE BuildPaths(_, _, _, _)
BuildPaths(preds, sources, stack, i) ==
    LET node == stack[Len(stack)]
        found == IF i = 1 /\ node \in sources THEN <<Reverse(stack)>> ELSE <<>>
    IN
    IF i > Len(preds[node]) THEN found
    ELSE LET following == preds[node][i] IN
         found
         \o (IF following \in Range(stack) THEN <<>>
             ELSE BuildPaths(preds, sources, Append(stack, following), 1))
         \o BuildPaths(preds, sources, stack, i + 1)

\* NetworkXNoPath is raised when the target has no entry in pred
build_paths_from_predecessors(sources, target, preds) ==
    BuildPaths(preds, sources, <<target>>, 1)

(* ---------------------------------------------------------------------- *)
(* graphs/solver.py: solve                                                 *)
(* ---------------------------------------------------------------------- *)
Source == entrance(squares).index
Target == exit(squares).index

\* The cache of a Maze that __post_init__ has accepted: validate_rows_columns
\* has read maze.height and maze.width
EmptyCache == [width |-> <<>>, height |-> <<>>, entrance |-> <<>>, exit |-> <<>>]
NewCache(sqs) == [EmptyCache EXCEPT !["width"] = <<width(sqs)>>, !["height"] = <<height(sqs)>>]

\* No operation under study
NoCall == [op |-> "none", arg |-> <<>>]

\* Maze.load not running
NoHeader == [format_version |-> 0, width |-> 0, height |-> 0]
LoadIdle == [pc |-> "idle", header |-> NoHeader, body |-> <<>>, cells |-> <<>>]

\* A thread that has called neither solve nor solve_all
NoSecond == [pc |-> "idle", graph |-> EmptyGraph, nodes |-> {}, bd |-> BDIdle,
             dj |-> DJIdle, best |-> Unset, all |-> Unset, pending |-> <<>>]

\* functools.cached_property: the value stored in the instance's __dict__
\* when there is one, else the computed value, which is then stored
Cached(c, name) == c[name] # <<>>

\* As ResolveEnds, but an entrance that is cached already is looked up again
\* and the last square with the role is stored
ResolveEnds_LooksUpAgain(c) ==
    LET last == CHOOSE sq \in {squares[i] : i \in 1..Len(squares)} :
                    /\ sq.role = ENTRANCE
                    /\ \A other \in {squares[i] : i \in 1..Len(squares)} :
                        other.role = ENTRANCE => other.index <= sq.index
        c1 == IF HasRole(squares, ENTRANCE)
              THEN [c EXCEPT !["entrance"] =
                       IF Cached(c, "entrance") THEN <<last>> ELSE <<entrance(squares)>>]
              ELSE c
    IN  IF ~Cached(c1, "entrance") THEN c1
        ELSE IF ~Cached(c1, "exit") /\ HasRole(squares, EXIT)
             THEN [c1 EXCEPT !["exit"] = <<exit(squares)>>] ELSE c1

\* The cache after maze.entrance and then maze.exit have been evaluated.  A
\* property whose next() raises StopIteration stores nothing, and exit is not
\* evaluated once entrance has raised.
ResolveEnds(c) ==
    LET c1 == IF ~Cached(c, "entrance") /\ HasRole(squares, ENTRANCE)
              THEN [c EXCEPT !["entrance"] = <<entrance(squares)>>] ELSE c
    IN  IF ~Cached(c1, "entrance") THEN c1
        ELSE IF ~Cached(c1, "exit") /\ HasRole(squares, EXIT)
             THEN [c1 EXCEPT !["exit"] = <<exit(squares)>>] ELSE c1

\* Neither property has raised
EndsFound == Cached(ResolveEnds(cache), "entrance") /\ Cached(ResolveEnds(cache), "exit")

\* source=maze.entrance and target=maze.exit as the call has them
CallSource == ResolveEnds(cache).entrance[1].index
CallTarget == ResolveEnds(cache).exit[1].index

\* The arguments of nx.shortest_path are evaluated in order: make_graph(maze)
\* first
SolveCall ==
    /\ pc = "idle"
    /\ best = Unset
    /\ pc' = "solve"
    /\ nodes' = get_nodes(squares)
    /\ graph' = make_graph(squares)
    /\ UNCHANGED <<squares, bd, dj, best, all, cache, others>>

\* maze.entrance or maze.exit finds no square: next() raises StopIteration,
\* which is no NetworkXException and leaves solve
SolveStopIteration ==
    /\ pc = "solve"
    /\ ~EndsFound
    /\ pc' = "idle"
    /\ graph' = EmptyGraph
    /\ nodes' = {}
    /\ best' = Raise("StopIteration")
    /\ cache' = ResolveEnds(cache)
    /\ UNCHANGED <<squares, bd, dj, all, others>>

\* bidirectional_dijkstra raises NodeNotFound, a NetworkXException
SolveNodeNotFound ==
    /\ pc = "solve"
    /\ EndsFound
    /\ CallSource \notin graph.node \/ CallTarget \notin graph.node
    /\ pc' = "idle"
    /\ graph' = EmptyGraph
    /\ nodes' = {}
    /\ best' = ReturnNone
    /\ cache' = ResolveEnds(cache)
    /\ UNCHANGED <<squares, bd, dj, all, others>>

SolveSearch ==
    /\ pc = "solve"
    /\ EndsFound
    /\ CallSource \in graph.node /\ CallTarget \in graph.node
    /\ pc' = "bidirectional_dijkstra"
    /\ bd' = BDStart(CallSource, CallTarget)
    /\ cache' = ResolveEnds(cache)
    /\ UNCHANGED <<squares, graph, nodes, dj, best, all, others>>

\* The value solve ends with once the search has returned path
SolveReturn(path) == Solution(SolutionOf(squares, path))

\* One iteration of "while fringe[0] and fringe[1]"
BDIterate ==
    /\ pc = "bidirectional_dijkstra"
    /\ bd.fringe[1] # <<>> /\ bd.fringe[2] # <<>>
    /\ LET dir == 1 - bd.dir
           k == dir + 1
           top == HeapTop(bd.fringe[k])
           dist == bd.fringe[k][top].dist
           v == bd.fringe[k][top].node
           popped == [bd EXCEPT !.dir = dir, !.fringe[k] = HeapRemove(@, top)]
           scanned == [popped EXCEPT !.dists[k] = Put(@, v, dist)]
       IN
       IF v \in DOMAIN bd.dists[k]
       THEN \* the shortest path to v has already been found: continue
            /\ bd' = popped
            /\ UNCHANGED <<squares, pc, graph, nodes, dj, best, all, cache, others>>
       ELSE IF v \in DOMAIN bd.dists[3 - k]
       THEN \* scanned in both directions: return (finaldist, finalpath)
            /\ pc' = "idle"
            /\ graph' = EmptyGraph
            /\ nodes' = {}
            /\ bd' = BDIdle
            /\ best' = SolveReturn(bd.finalpath)
            /\ UNCHANGED <<squares, dj, all, cache, others>>
       ELSE \E order \in Orders(neighs(graph, dir, v)) :
               LET relaxed == BDRelax(graph, scanned, dir, v, order) IN
               IF relaxed.error
               THEN /\ pc' = "idle"
                    /\ graph' = EmptyGraph
                    /\ nodes' = {}
                    /\ bd' = BDIdle
                    /\ best' = Raise("ValueError")
                    /\ UNCHANGED <<squares, dj, all, cache, others>>
               ELSE /\ bd' = relaxed
                    /\ UNCHANGED <<squares, pc, graph, nodes, dj, best, all, cache, others>>

\* As BDNoPath, but the NetworkXNoPath leaves solve
BDNoPath_Uncaught ==
    /\ pc = "bidirectional_dijkstra"
    /\ bd.fringe[1] = <<>> \/ bd.fringe[2] = <<>>
    /\ pc' = "idle"
    /\ graph' = EmptyGraph
    /\ nodes' = {}
    /\ bd' = BDIdle
    /\ best' = Raise("NetworkXNoPath")
    /\ UNCHANGED <<squares, dj, all, cache, others>>

\* A fringe ran empty: NetworkXNoPath, caught by solve
BDNoPath ==
    /\ pc = "bidirectional_dijkstra"
    /\ bd.fringe[1] = <<>> \/ bd.fringe[2] = <<>>
    /\ pc' = "idle"
    /\ graph' = EmptyGraph
    /\ nodes' = {}
    /\ bd' = BDIdle
    /\ best' = ReturnNone
    /\ UNCHANGED <<squares, dj, all, cache, others>>

(* ---------------------------------------------------------------------- *)
(* graphs/solver.py: solve_all                                             *)
(* ---------------------------------------------------------------------- *)
SolveAllCall ==
    /\ pc = "idle"
    /\ all = Unset
    /\ pc' = "solve_all"
    /\ nodes' = get_nodes(squares)
    /\ graph' = make_graph(squares)
    /\ UNCHANGED <<squares, bd, dj, best, all, cache, others>>

SolveAllStopIteration ==
    /\ pc = "solve_all"
    /\ ~EndsFound
    /\ pc' = "idle"
    /\ graph' = EmptyGraph
    /\ nodes' = {}
    /\ all' = Raise("StopIteration")
    /\ cache' = ResolveEnds(cache)
    /\ UNCHANGED <<squares, bd, dj, best, others>>

\* dijkstra_predecessor_and_distance raises NodeNotFound for a source that is
\* no vertex
SolveAllNodeNotFound ==
    /\ pc = "solve_all"
    /\ EndsFound
    /\ CallSource \notin graph.node
    /\ pc' = "idle"
    /\ graph' = EmptyGraph
    /\ nodes' = {}
    /\ all' = Return(<<>>)
    /\ cache' = ResolveEnds(cache)
    /\ UNCHANGED <<squares, bd, dj, best, others>>

SolveAllSearch ==
    /\ pc = "solve_all"
    /\ EndsFound
    /\ CallSource \in graph.node
    /\ pc' = "dijkstra"
    /\ dj' = DJStart(CallSource)
    /\ cache' = ResolveEnds(cache)
    /\ UNCHANGED <<squares, graph, nodes, bd, best, all, others>>

\* [Solution(squares=tuple(path)) for path in ...]: the first failing
\* Solution leaves solve_all with its AssertionError
SolveAllReturn(paths) ==
    LET made_all == [i \in 1..Len(paths) |-> Solution(SolutionOf(squares, paths[i]))]
        failed == {i \in 1..Len(paths) : made_all[i].kind = "raise"}
    IN
    IF failed = {} THEN Return([i \in 1..Len(paths) |-> made_all[i].value])
    ELSE made_all[CHOOSE i \in failed : \A j \in failed : i <= j]

\* One iteration of "while fringe" of _dijkstra_multisource
DJIterate ==
    /\ pc = "dijkstra"
    /\ dj.fringe # <<>>
    /\ LET top == HeapTop(dj.fringe)
           d == dj.fringe[top].dist
           v == dj.fringe[top].node
           popped == [dj EXCEPT !.fringe = HeapRemove(@, top)]
           scanned == [popped EXCEPT !.dist = Put(@, v, d)]
       IN
       IF v \in DOMAIN dj.dist
       THEN /\ dj' = popped
            /\ UNCHANGED <<squares, pc, graph, nodes, bd, best, all, cache, others>>
       ELSE \E order \in Orders(succ(graph, v)) :
               LET relaxed == DJRelax(graph, scanned, v, order) IN
               IF relaxed.error
               THEN /\ pc' = "idle"
                    /\ graph' = EmptyGraph
                    /\ nodes' = {}
                    /\ dj' = DJIdle
                    /\ all' = Raise("ValueError")
                    /\ UNCHANGED <<squares, bd, best, cache, others>>
               ELSE /\ dj' = relaxed
                    /\ UNCHANGED <<squares, pc, graph, nodes, bd, best, all, cache, others>>

\* The fringe is empty: the paths are built from pred, or NetworkXNoPath is
\* raised (and caught by solve_all) when the target has no entry in it
DJFinish ==
    /\ pc = "dijkstra"
    /\ dj.fringe = <<>>
    /\ pc' = "idle"
    /\ graph' = EmptyGraph
    /\ nodes' = {}
    /\ dj' = DJIdle
    /\ all' = IF CallTarget \notin DOMAIN dj.pred THEN Return(<<>>)
              ELSE SolveAllReturn(build_paths_from_predecessors({CallSource}, CallTarget, dj.pred))
    /\ UNCHANGED <<squares, bd, best, cache, others>>

(* ---------------------------------------------------------------------- *)
(* The mazes under work                                                    *)
(* ---------------------------------------------------------------------- *)
\* The maze of w columns and h rows with the given borders and roles, listed
\* in row-major order
MazeOf(w, h, borders, roles) ==
    [i \in 1..(w * h) |->
        Square(i - 1, (i - 1) \div w, (i - 1) % w, borders[i], roles[i])]

\* The miniature maze of the docstrings of models/maze.py and
\* persistence/serializer.py
Miniature ==
    MazeOf(4, 3,
           <<TOP + LEFT, TOP + RIGHT, LEFT + RIGHT, TOP + LEFT + RIGHT,
             BOTTOM + LEFT + RIGHT, LEFT + RIGHT, BOTTOM + LEFT, RIGHT,
             TOP + LEFT, BOTTOM, TOP + BOTTOM, BOTTOM + RIGHT>>,
           <<NONE, NONE, EXIT, NONE,
             NONE, NONE, NONE, NONE,
             ENTRANCE, NONE, NONE, NONE>>)

\* One-square mazes: every border and role
TinyMazes == {MazeOf(1, 1, <<b>>, <<r>>) : b \in Border, r \in Role}

\* Borders of the squares of the larger mazes: open, closed to the right or
\* downwards, a corridor along the row or along the column
PaletteBorders == {EMPTY, RIGHT, BOTTOM, TOP + BOTTOM, LEFT + RIGHT}

\* Two-square mazes, side by side and one above the other: every role
PairMazes ==
    {MazeOf(d[1], d[2], b, r) :
        d \in {<<2, 1>>, <<1, 2>>}, b \in [1..2 -> PaletteBorders], r \in [1..2 -> Role]}

\* Role assignments of n squares with exactly one entrance and one exit, the
\* other squares being plain, enemies, rewards or walls
WellFormedRoles(n) ==
    {r \in [1..n -> {NONE, ENEMY, ENTRANCE, EXIT, REWARD, WALL}] :
        /\ Cardinality({i \in 1..n : r[i] = ENTRANCE}) = 1
        /\ Cardinality({i \in 1..n : r[i] = EXIT}) = 1}

\* The longest row and column mazes
MaxLine == 3

\* Role assignments of the row and column mazes: besides the entrance and
\* the exit at most one square is an enemy, a reward or a wall
LineRoles(n) ==
    {r \in WellFormedRoles(n) :
        Cardinality({i \in 1..n : r[i] \in {ENEMY, REWARD, WALL}}) <= 1}

\* Squares in one row, and in one column: each square is open, or a corridor
\* along the line (no node unless its role makes it one), or closed towards
\* the next square
RowMazes ==
    UNION {{MazeOf(n, 1, b, r) :
                b \in [1..n -> {EMPTY, TOP + BOTTOM, RIGHT}], r \in LineRoles(n)}
           : n \in 3..MaxLine}

ColumnMazes ==
    UNION {{MazeOf(1, n, b, r) :
                b \in [1..n -> {EMPTY, LEFT + RIGHT, BOTTOM}], r \in LineRoles(n)}
           : n \in 3..MaxLine}

\* Two by two squares inside a closed outer wall; closed is the set of the
\* inner passages (pairs of adjacent indices) that are walled on both sides
InnerPassages == {<<0, 1>>, <<2, 3>>, <<0, 2>>, <<1, 3>>}

BlockBorders(closed) ==
    <<TOP + LEFT + (IF <<0, 1>> \in closed THEN RIGHT ELSE 0)
                 + (IF <<0, 2>> \in closed THEN BOTTOM ELSE 0),
      TOP + RIGHT + (IF <<0, 1>> \in closed THEN LEFT ELSE 0)
                  + (IF <<1, 3>> \in closed THEN BOTTOM ELSE 0),
      BOTTOM + LEFT + (IF <<2, 3>> \in closed THEN RIGHT ELSE 0)
                    + (IF <<0, 2>> \in closed THEN TOP ELSE 0),
      BOTTOM + RIGHT + (IF <<2, 3>> \in closed THEN LEFT ELSE 0)
                     + (IF <<1, 3>> \in closed THEN TOP ELSE 0)>>

BlockMazes ==
    {MazeOf(2, 2, BlockBorders(closed), r) :
        closed \in SUBSET InnerPassages, r \in WellFormedRoles(4)}

\* Three by two squares inside a closed outer wall with every inner passage
\* open; the squares besides the entrance and the exit are plain or rewards
BoardMazes ==
    {MazeOf(3, 2,
            <<TOP + LEFT, TOP, TOP + RIGHT, BOTTOM + LEFT, BOTTOM, BOTTOM + RIGHT>>, r) :
        r \in {w \in WellFormedRoles(6) : \A i \in 1..6 : w[i] \notin {ENEMY, WALL}}}

Mazes == {Miniature} \cup TinyMazes \cup PairMazes \cup RowMazes \cup ColumnMazes
         \cup BlockMazes \cup BoardMazes

Init ==
    /\ squares \in Mazes
    /\ pc = "idle"
    /\ graph = EmptyGraph
    /\ bd = BDIdle
    /\ dj = DJIdle
    /\ best = Unset
    /\ all = Unset
    /\ nodes = {}
    /\ candidate = <<>>
    /\ made = Unset
    /\ cache = NewCache(squares)
    /\ call = NoCall
    /\ outcome = Unset
    /\ file = <<>>
    /\ load = LoadIdle
    /\ previous = Unset
    /\ pending = <<>>
    /\ second = NoSecond

Next ==
    \/ SolveCall
    \/ SolveStopIteration
    \/ SolveNodeNotFound
    \/ SolveSearch
    \/ BDIterate
    \/ BDNoPath
    \/ SolveAllCall
    \/ SolveAllStopIteration
    \/ SolveAllNodeNotFound
    \/ SolveAllSearch
    \/ DJIterate
    \/ DJFinish

Spec == Init /\ [][Next]_vars

(* ---------------------------------------------------------------------- *)
(* Solution construction on its own: any tuple of squares                  *)
(* ---------------------------------------------------------------------- *)
\* The longest tuple a Solution is constructed from
MaxLen == 3

\* The tuples of at most MaxLen squares of the miniature maze
Candidates ==
    UNION {[1..n -> Range(Miniature)] : n \in 0..MaxLen}

InitSolution ==
    /\ squares = Miniature
    /\ pc = "idle"
    /\ graph = EmptyGraph
    /\ bd = BDIdle
    /\ dj = DJIdle
    /\ best = Unset
    /\ all = Unset
    /\ nodes = {}
    /\ candidate \in Candidates
    /\ made = Unset
    /\ cache = NewCache(squares)
    /\ call = NoCall
    /\ outcome = Unset
    /\ file = <<>>
    /\ load = LoadIdle
    /\ previous = Unset
    /\ pending = <<>>
    /\ second = NoSecond

\* Solution(squares=candidate)
SolutionCall ==
    /\ made = Unset
    /\ made' = Solution(candidate)
    /\ UNCHANGED <<squares, pc, graph, bd, dj, best, all, nodes, candidate,
                   cache, call, outcome, file, load, previous, pending, second>>

NextSolution == SolutionCall

SpecSolution == InitSolution /\ [][NextSolution]_vars


(* ---------------------------------------------------------------------- *)
(* Reference notions the properties are stated with                        *)
(* ---------------------------------------------------------------------- *)
\* The simple directed paths of G that extend path and end at target
RECURSIVE SimplePathsFrom(_, _, _)
SimplePathsFrom(G, path, target) ==
    IF path[Len(path)] = target THEN {path}
    ELSE UNION {SimplePathsFrom(G, Append(path, w), target) :
                    w \in succ(G, path[Len(path)]) \ Range(path)}

\* The simple directed paths of G from source to target (none when source is
\* no vertex)
SimplePaths(G, source, target) ==
    IF source \in G.node THEN SimplePathsFrom(G, <<source>>, target) ELSE {}

\* The sum of the arc weights along a path of G
RECURSIVE PathWeight(_, _)
PathWeight(G, path) ==
    IF Len(path) < 2 THEN 0
    ELSE G.adj[<<path[1], path[2]>>] + PathWeight(G, Tail(path))

IsPath(G, path) ==
    /\ Len(path) >= 1
    /\ \A i \in 1..(Len(path) - 1) : <<path[i], path[i + 1]>> \in Arcs(G)

\* The least of a non-empty set of numbers
SetMin(S) == CHOOSE m \in S : \A n \in S : m <= n

\* The paths of least total weight among the given paths of G
LeastWeight(G, paths) ==
    IF paths = {} THEN {}
    ELSE LET least == SetMin({PathWeight(G, q) : q \in paths})
         IN {p \in paths : PathWeight(G, p) = least}

Indices(sqs) == [i \in 1..Len(sqs) |-> sqs[i].index]

\* Every square of the tuple is the square of the maze with that index
SquaresOf(sqs, tuple) == \A i \in 1..Len(tuple) : tuple[i] = Sq(sqs, tuple[i].index)

HasEnds == HasRole(squares, ENTRANCE) /\ HasRole(squares, EXIT)

\* The simple entrance-to-exit paths of the graph G of the maze under work
EndToEnd(G) == SimplePaths(G, Source, Target)

(* ---------------------------------------------------------------------- *)
(* C1                                                                      *)
(* ---------------------------------------------------------------------- *)
\* C1: a Solution returned by solve is a path of the graph built from the
\* maze, from the maze's entrance square to its exit square, and no directed
\* entrance-to-exit path of that graph has a smaller sum of arc weights.
\* (No arc weight is negative, so a least-weight walk is matched by a simple
\* path and the simple paths decide the minimum.)
C1_SolveReturnsLeastWeightPath ==
    best.kind = "return" =>
        LET G == make_graph(squares)
            found == Indices(best.value)
        IN
        /\ HasEnds
        /\ best.value[1] = entrance(squares)
        /\ best.value[Len(best.value)] = exit(squares)
        /\ SquaresOf(squares, best.value)
        /\ IsPath(G, found)
        /\ \A a \in Arcs(G) : G.adj[a] >= 0
        /\ found \in LeastWeight(G, EndToEnd(G))

\* solve has returned a Solution of at least three squares although a path
\* of no more arcs but greater weight exists
C1_Witness ==
    /\ best.kind = "return"
    /\ Len(best.value) >= 3
    /\ LET G == make_graph(squares) IN
       \E q \in EndToEnd(G) :
          /\ Len(q) <= Len(best.value)
          /\ PathWeight(G, q) > PathWeight(G, Indices(best.value))

(* ---------------------------------------------------------------------- *)
(* C2                                                                      *)
(* ---------------------------------------------------------------------- *)
\* C2: the list returned by solve_all holds exactly the simple
\* entrance-to-exit paths of the built graph whose total weight is the least
\* total weight: each returned path has least weight, and no simple path of
\* least weight is missing.
C2_SolveAllReturnsTheLeastWeightPaths ==
    all.kind = "return" =>
        LET G == make_graph(squares) IN
        /\ HasEnds
        /\ {Indices(all.value[i]) : i \in 1..Len(all.value)} = LeastWeight(G, EndToEnd(G))
        /\ \A i \in 1..Len(all.value) : SquaresOf(squares, all.value[i])

\* solve_all has returned two paths with different numbers of squares: the
\* weight, not the hop count, is what they share
C2_Witness ==
    /\ all.kind = "return"
    /\ \E i, j \in 1..Len(all.value) : Len(all.value[i]) < Len(all.value[j])

(* ---------------------------------------------------------------------- *)
(* C3                                                                      *)
(* ---------------------------------------------------------------------- *)
\* C3: when the maze has an entrance and an exit and the exit cannot be
\* reached from the entrance in the built graph, solve ends by returning None
\* and solve_all by returning the empty list; neither raises.
Unreachable == HasEnds /\ EndToEnd(make_graph(squares)) = {}

C3_NoPathIsNoneAndEmpty ==
    (best # Unset \/ all # Unset) =>
        (Unreachable =>
            /\ best \in {Unset, ReturnNone}
            /\ all \in {Unset, Return(<<>>)})

Adjacent(a, b) ==
    \/ a.row = b.row /\ (a.column - b.column) \in {-1, 1}
    \/ a.column = b.column /\ (a.row - b.row) \in {-1, 1}

\* Both calls have ended on a maze whose entrance lies next to its exit with
\* no arc between them and no other way round
C3_Witness ==
    /\ best = ReturnNone
    /\ all = Return(<<>>)
    /\ Unreachable
    /\ Adjacent(entrance(squares), exit(squares))

\* Both calls have ended on a maze whose entrance and exit are both vertices
\* of the graph, and still no path joins them
C3_WitnessBothVertices ==
    /\ best = ReturnNone
    /\ all = Return(<<>>)
    /\ Unreachable
    /\ {Source, Target} \subseteq make_graph(squares).node


(* ---------------------------------------------------------------------- *)
(* C4                                                                      *)
(* ---------------------------------------------------------------------- *)
\* C4: when the maze has no square of role ENTRANCE or none of role EXIT,
\* solve returns None rather than raising an error.
C4_SolveReturnsNoneWithoutEnds ==
    (~HasEnds /\ best # Unset) => best = ReturnNone

\* What the code does there: once solve has ended on such a maze, it has
\* raised StopIteration
C4_SolveRaisesWithoutEnds ==
    (~HasEnds /\ best # Unset) => best = Raise("StopIteration")

\* solve has ended on a maze with an exit and no entrance
C4_Witness ==
    /\ ~HasRole(squares, ENTRANCE)
    /\ HasRole(squares, EXIT)
    /\ best # Unset

(* ---------------------------------------------------------------------- *)
(* C5                                                                      *)
(* ---------------------------------------------------------------------- *)
\* C5: once solve and solve_all have both returned on the same maze, the
\* Solution returned by solve is one of the Solutions in the list returned by
\* solve_all, and solve returned None exactly when that list is empty.
C5_BestIsAmongAllBest ==
    (best.kind \in {"none", "return"} /\ all.kind = "return") =>
        /\ best.kind = "none" <=> all.value = <<>>
        /\ best.kind = "return" => best.value \in Range(all.value)

\* Both have returned, solve_all more than one Solution
C5_Witness ==
    /\ best.kind = "return"
    /\ all.kind = "return"
    /\ Len(all.value) >= 2

\* Both have returned and there is no Solution
C5_WitnessNone ==
    /\ best.kind = "none"
    /\ all.kind = "return"
    /\ all.value = <<>>

(* ---------------------------------------------------------------------- *)
(* C7                                                                      *)
(* ---------------------------------------------------------------------- *)
\* The path of the example in the docstring of graphs/solver.py
ReferencePath == SolutionOf(Miniature, <<8, 9, 11, 7, 6, 2>>)

\* C7: on the miniature maze (4 by 3, entrance at index 8, exit at index 2)
\* solve returns the six squares of indices 8, 9, 11, 7, 6, 2, and solve_all
\* returns exactly that one path.
C7_MiniatureIsSolvedByTheReferencePath ==
    squares = Miniature =>
        /\ Len(squares) = 12 /\ width(squares) = 4 /\ height(squares) = 3
        /\ entrance(squares).index = 8 /\ exit(squares).index = 2
        /\ Len(ReferencePath) = 6
        /\ best # Unset => best = Return(ReferencePath)
        /\ all # Unset => all = Return(<<ReferencePath>>)

\* Both calls have ended on the miniature maze
C7_Witness ==
    /\ squares = Miniature
    /\ best # Unset
    /\ all # Unset


(* ---------------------------------------------------------------------- *)
(* C6                                                                      *)
(* ---------------------------------------------------------------------- *)
SameRowOrColumn(a, b) == a.row = b.row \/ a.column = b.column

\* The three conditions of a legal Solution
LegalSolution(tuple) ==
    /\ Len(tuple) >= 1
    /\ tuple[1].role = ENTRANCE
    /\ tuple[Len(tuple)].role = EXIT
    /\ \A i \in 1..(Len(tuple) - 1) : SameRowOrColumn(tuple[i], tuple[i + 1])

\* C6: constructing a Solution from a tuple of squares succeeds only if the
\* first square is the ENTRANCE, the last the EXIT, and every two consecutive
\* squares share a row or a column; for every tuple that breaks one of the
\* three the construction fails, so every Solution there is satisfies them.
C6_SolutionIsValidated ==
    made # Unset =>
        /\ made.kind = "return" <=> LegalSolution(candidate)
        /\ made.kind = "return" => made.value = candidate
        /\ made.kind # "return" => made.kind = "raise"

\* A construction has failed only because two consecutive squares share
\* neither row nor column: the roles at both ends are right
C6_Witness ==
    /\ made.kind = "raise"
    /\ Len(candidate) >= 2
    /\ candidate[1].role = ENTRANCE
    /\ candidate[Len(candidate)].role = EXIT

\* A construction of three squares has succeeded
C6_WitnessMade ==
    /\ made.kind = "return"
    /\ Len(candidate) = 3

(* ---------------------------------------------------------------------- *)
(* C8                                                                      *)
(* ---------------------------------------------------------------------- *)
\* The walls of a border, as a set of sides
Sides == {"top", "bottom", "left", "right"}

Flag(side) ==
    IF side = "top" THEN TOP
    ELSE IF side = "bottom" THEN BOTTOM
    ELSE IF side = "left" THEN LEFT
    ELSE RIGHT

Walls(border) == {side \in Sides : (border \div Flag(side)) % 2 = 1}

Parallel(walls) == walls \in {{"top", "bottom"}, {"left", "right"}}

\* The rule of the specification for one square
NodeByRule(square) ==
    /\ square.role \notin {EXTERIOR, WALL}
    /\ \/ square.role # NONE
       \/ Cardinality(Walls(square.border)) < 2
       \/ Cardinality(Walls(square.border)) = 3
       \/ Cardinality(Walls(square.border)) = 2 /\ ~Parallel(Walls(square.border))

\* C8: during a call, the node set is the set of the squares whose role is
\* neither EXTERIOR nor WALL and that have a role other than NONE, or fewer
\* than two walls, or exactly three, or exactly two perpendicular ones.  So
\* every ENTRANCE, EXIT, REWARD and ENEMY square is a node, no WALL or
\* EXTERIOR square is, and a NONE square with two parallel walls or with all
\* four walls is not.
C8_NodesFollowTheRule ==
    pc \in {"solve", "solve_all"} =>
        /\ nodes = {i \in 0..(Len(squares) - 1) : NodeByRule(Sq(squares, i))}
        /\ \A i \in 0..(Len(squares) - 1) :
              LET square == Sq(squares, i) IN
              /\ square.role \in {ENTRANCE, EXIT, REWARD, ENEMY} => i \in nodes
              /\ square.role \in {WALL, EXTERIOR} => i \notin nodes
              /\ (square.role = NONE /\ Parallel(Walls(square.border))) => i \notin nodes
              /\ (square.role = NONE /\ Walls(square.border) = Sides) => i \notin nodes

\* A call on a maze with a plain square that two perpendicular walls make a
\* node, and a plain square with two parallel walls that is none
C8_Witness ==
    /\ pc \in {"solve", "solve_all"}
    /\ \E i, j \in 0..(Len(squares) - 1) :
          /\ Sq(squares, i).role = NONE /\ Sq(squares, j).role = NONE
          /\ Cardinality(Walls(Sq(squares, i).border)) = 2
          /\ Cardinality(Walls(Sq(squares, j).border)) = 2
          /\ i \in nodes
          /\ j \notin nodes

\* A call on a maze with a plain square closed on all four sides
C8_WitnessClosed ==
    /\ pc \in {"solve", "solve_all"}
    /\ \E i \in 0..(Len(squares) - 1) :
          /\ Sq(squares, i).role = NONE
          /\ Sq(squares, i).border = 15
          /\ i \notin nodes

(* ---------------------------------------------------------------------- *)
(* C9                                                                      *)
(* ---------------------------------------------------------------------- *)
\* The directed edges with their weights, as make_graph receives them
DirectedEdgesOf(sqs) == get_directed_edges(sqs, get_nodes(sqs))

ArcsAreTheDirectedEdges ==
    /\ Arcs(graph) = DirectedEdgesOf(squares)
    /\ \A e \in Arcs(graph) : graph.adj[e] = weight(squares, e)

\* C9 as stated: the vertex set of the built graph is exactly the node set,
\* nodes without any incident edge included, and its arc set is exactly the
\* set of directed edges with their weights.
C9_VerticesAreTheNodes ==
    pc \in {"solve", "solve_all"} =>
        /\ graph.node = nodes
        /\ ArcsAreTheDirectedEdges

\* C9 as the code has it: the vertices of the built graph are the nodes that
\* have an incident edge (a node without one is no vertex), and the arc set
\* is exactly the set of directed edges with their weights.
C9_VerticesAreTheNodesWithAnEdge ==
    pc \in {"solve", "solve_all"} =>
        /\ graph.node = {n \in nodes : \E e \in DirectedEdgesOf(squares) : n \in {e[1], e[2]}}
        /\ ArcsAreTheDirectedEdges

\* A graph with arcs has been built from a maze that also has a node without
\* any incident edge
C9_Witness ==
    /\ pc \in {"solve", "solve_all"}
    /\ Arcs(graph) # {}
    /\ nodes \ graph.node # {}

(* ---------------------------------------------------------------------- *)
(* C10                                                                     *)
(* ---------------------------------------------------------------------- *)
\* The classes of roles the weight tells apart
RoleClass(role) == IF role \in {REWARD, ENEMY} THEN role ELSE NONE

\* C10: for every pair of arcs A->B and B->A of the built graph,
\* distance - 1 <= weight(A->B) <= distance + 2, and the two weights differ
\* exactly when A and B are in different classes among REWARD, ENEMY and
\* every other role.
C10_WeightBoundsAndAsymmetry ==
    pc \in {"solve", "solve_all"} =>
        \A e \in Arcs(graph) :
            LET A == Sq(squares, e[1])
                B == Sq(squares, e[2])
            IN
            /\ flip(e) \in Arcs(graph)
            /\ distance(squares, e) - 1 <= graph.adj[e]
            /\ graph.adj[e] <= distance(squares, e) + 2
            /\ graph.adj[e] # graph.adj[flip(e)] <=> RoleClass(A.role) # RoleClass(B.role)

\* A built graph with an arc between a reward and an enemy, an arc that
\* reaches the lower bound, and an arc between two squares of one class
C10_Witness ==
    /\ pc \in {"solve", "solve_all"}
    /\ \E e \in Arcs(graph) :
          /\ Sq(squares, e[1]).role = ENEMY
          /\ Sq(squares, e[2]).role = REWARD
          /\ graph.adj[e] = distance(squares, e) - 1
          /\ graph.adj[flip(e)] = distance(squares, e) + 2
    /\ \E e \in Arcs(graph) :
          RoleClass(Sq(squares, e[1]).role) = RoleClass(Sq(squares, e[2]).role)


(* ---------------------------------------------------------------------- *)
(* models/maze.py: Maze(squares=...) on any sequence of squares            *)
(* ---------------------------------------------------------------------- *)
\* The first position of the width * height rectangle that
\* validate_rows_columns rejects, in the order of its two loops
FirstRejected(sqs) ==
    LET w == width(sqs)
        bad == {i \in 0..(w * height(sqs) - 1) :
                   \/ i >= Len(sqs)
                   \/ sqs[i + 1].row # i \div w
                   \/ sqs[i + 1].column # i % w}
    IN  CHOOSE i \in bad : \A j \in bad : i <= j

\* Maze(squares=sqs): the Maze, or the exception __post_init__ leaves with.
\* max() of no squares raises ValueError when maze.height is read; maze[i]
\* beyond the last square raises IndexError.
Maze(sqs) ==
    IF ~validate_indices(sqs) THEN Raise("AssertionError")
    ELSE IF sqs = <<>> THEN Raise("ValueError")
    ELSE IF validate_rows_columns(sqs) THEN Return(sqs)
    ELSE IF FirstRejected(sqs) >= Len(sqs) THEN Raise("IndexError")
    ELSE Raise("AssertionError")

\* The longest sequence of squares a Maze is constructed from
MaxCells == 3

\* Sequences of plain squares with any index, row and column
PlainSquares(n) ==
    {Square(i, r, c, EMPTY, NONE) : i \in 0..(n - 1), r \in 0..1, c \in 0..2}

GeometryInputs == UNION {[1..n -> PlainSquares(n)] : n \in 0..MaxCells}

\* Well placed squares with any number of entrances and exits
RoleInputs == TinyMazes \cup PairMazes

InitMaze ==
    /\ squares = <<>>
    /\ pc = "idle"
    /\ graph = EmptyGraph
    /\ bd = BDIdle
    /\ dj = DJIdle
    /\ best = Unset
    /\ all = Unset
    /\ nodes = {}
    /\ candidate = <<>>
    /\ made = Unset
    /\ cache = EmptyCache
    /\ call \in {[op |-> "Maze", arg |-> sqs] : sqs \in GeometryInputs \cup RoleInputs}
    /\ outcome = Unset
    /\ file = <<>>
    /\ load = LoadIdle
    /\ previous = Unset
    /\ pending = <<>>
    /\ second = NoSecond

\* Maze(squares=call.arg).  The accepted Maze is the maze under work from
\* then on, with the width and height its validation has read.
MazeCall ==
    /\ call.op = "Maze"
    /\ outcome = Unset
    /\ outcome' = Maze(call.arg)
    /\ squares' = IF Maze(call.arg).kind = "return" THEN call.arg ELSE squares
    /\ cache' = IF Maze(call.arg).kind = "return" THEN NewCache(call.arg) ELSE cache
    /\ UNCHANGED <<pc, graph, bd, dj, best, all, nodes, construction, call,
                   file, load, previous, pending, second>>

NextMaze == MazeCall

SpecMaze == InitMaze /\ [][NextMaze]_vars

\* The number of squares of a sequence that have the role
CountRole(sqs, role) == Cardinality({i \in 1..Len(sqs) : sqs[i].role = role})

\* C11: every Maze that construction has accepted has exactly one square
\* with role ENTRANCE and exactly one with role EXIT; construction fails for
\* every other sequence of squares.
C11_ConstructionValidatesEnds ==
    (call.op = "Maze" /\ outcome.kind = "return") =>
        /\ CountRole(outcome.value, ENTRANCE) = 1
        /\ CountRole(outcome.value, EXIT) = 1

\* A well placed single square that is neither entrance nor exit has been
\* accepted
C11_Witness ==
    /\ call.op = "Maze"
    /\ outcome.kind = "return"
    /\ Len(outcome.value) = 1
    /\ CountRole(outcome.value, ENTRANCE) = 0
    /\ CountRole(outcome.value, EXIT) = 0

\* Index, row and column of every square agree with its position
FullRectangle(sqs) ==
    /\ sqs # <<>>
    /\ Len(sqs) = width(sqs) * height(sqs)
    /\ \A i \in 1..Len(sqs) :
        /\ sqs[i].index = i - 1
        /\ sqs[i].index = sqs[i].row * width(sqs) + sqs[i].column

\* C12: every Maze that construction has accepted is a full rectangle in
\* row-major order (width * height squares, each with index = position =
\* row * width + column), and construction fails for every sequence with a
\* square whose index, row or column disagrees with its position.
C12_AcceptedMazesAreFullRectangles ==
    (call.op = "Maze" /\ outcome # Unset) =>
        /\ outcome.kind = "return" => FullRectangle(outcome.value)
        /\ ~FullRectangle(call.arg) => outcome.kind = "raise"

\* Three squares have been accepted as a maze two wide and one high
C12_Witness ==
    /\ call.op = "Maze"
    /\ outcome.kind = "return"
    /\ Len(outcome.value) = 3
    /\ width(outcome.value) * height(outcome.value) = 2


(* ---------------------------------------------------------------------- *)
(* models/maze.py: maze.entrance, maze.exit and maze[index]                *)
(* ---------------------------------------------------------------------- *)
\* As GetItem_FromTheEnd, but a negative index is never counted from the end
GetItem_NoSquare(sqs, index) == Raise("IndexError")

\* tuple.__getitem__ outside 0..len-1: a negative index counts from the end
GetItem_FromTheEnd(sqs, index) ==
    IF index < 0 /\ Len(sqs) + index >= 0 THEN Return(sqs[Len(sqs) + index + 1])
    ELSE Raise("IndexError")

\* Maze.__getitem__: self.squares[index]
GetItem(sqs, index) ==
    IF 0 <= index /\ index < Len(sqs) THEN Return(sqs[index + 1])
    ELSE GetItem_FromTheEnd(sqs, index)

\* Reading the cached_property name of the maze: [out, cache]
ReadCached(c, name, role) ==
    IF Cached(c, name) THEN [out |-> Return(c[name][1]), cache |-> c]
    ELSE IF HasRole(squares, role)
         THEN [out |-> Return(FirstWithRole(squares, role)),
               cache |-> [c EXCEPT ![name] = <<FirstWithRole(squares, role)>>]]
         ELSE [out |-> Raise("StopIteration"), cache |-> c]

\* Mazes that construction accepts, among them mazes without and with
\* several entrances and exits
AccessMazes == TinyMazes \cup PairMazes \cup {Miniature}

InitAccess ==
    /\ squares \in AccessMazes
    /\ pc = "idle"
    /\ graph = EmptyGraph
    /\ bd = BDIdle
    /\ dj = DJIdle
    /\ best = Unset
    /\ all = Unset
    /\ nodes = {}
    /\ candidate = <<>>
    /\ made = Unset
    /\ cache = NewCache(squares)
    /\ call = NoCall
    /\ outcome = Unset
    /\ file = <<>>
    /\ load = LoadIdle
    /\ previous = Unset
    /\ pending = <<>>
    /\ second = NoSecond

\* maze.entrance
EntranceCall ==
    /\ call' = [op |-> "entrance", arg |-> <<>>]
    /\ outcome' = ReadCached(cache, "entrance", ENTRANCE).out
    /\ cache' = ReadCached(cache, "entrance", ENTRANCE).cache
    /\ UNCHANGED <<squares, pc, graph, bd, dj, best, all, nodes, construction,
                   file, load, previous, pending, second>>

\* maze.exit
ExitCall ==
    /\ call' = [op |-> "exit", arg |-> <<>>]
    /\ outcome' = ReadCached(cache, "exit", EXIT).out
    /\ cache' = ReadCached(cache, "exit", EXIT).cache
    /\ UNCHANGED <<squares, pc, graph, bd, dj, best, all, nodes, construction,
                   file, load, previous, pending, second>>

\* maze[index], for the indices from one below -len to len
GetItemCall ==
    \E index \in (0 - Len(squares) - 1)..Len(squares) :
        /\ call' = [op |-> "getitem", arg |-> index]
        /\ outcome' = GetItem(squares, index)
        /\ UNCHANGED <<squares, pc, graph, bd, dj, best, all, nodes, construction,
                       cache, file, load, previous, pending, second>>

NextAccess == EntranceCall \/ ExitCall \/ GetItemCall

SpecAccess == InitAccess /\ [][NextAccess]_vars

\* The role a property looks for
RoleOf(op) == IF op = "entrance" THEN ENTRANCE ELSE EXIT

\* C13: maze.entrance returns the unique square with role ENTRANCE and
\* maze.exit the unique square with role EXIT; each fails when the maze has
\* no square of the role and when it has more than one.
C13_EndsAreUniqueOrFail ==
    call.op \in {"entrance", "exit"} =>
        IF CountRole(squares, RoleOf(call.op)) = 1
        THEN /\ outcome.kind = "return"
             /\ outcome.value.role = RoleOf(call.op)
             /\ outcome.value \in Range(squares)
        ELSE outcome.kind = "raise"

\* maze.entrance has returned a square of a maze with two entrances
C13_Witness ==
    /\ call.op = "entrance"
    /\ CountRole(squares, ENTRANCE) = 2
    /\ outcome.kind = "return"

\* maze.exit has failed on a maze without exit
C13_WitnessNone ==
    /\ call.op = "exit"
    /\ CountRole(squares, EXIT) = 0
    /\ outcome = Raise("StopIteration")

\* C14 as stated: maze[index] returns the square with that index when
\* 0 <= index < n and fails with IndexError for every other index.
C14_GetItemFailsOutsideZeroToN ==
    call.op = "getitem" =>
        IF 0 <= call.arg /\ call.arg < Len(squares)
        THEN outcome.kind = "return" /\ outcome.value.index = call.arg
        ELSE outcome = Raise("IndexError")

\* C14: maze[index] on a maze of n squares returns the square whose index is
\* index when 0 <= index < n, the square whose index is n + index when
\* -n <= index < 0, and fails with IndexError for index >= n and index < -n.
C14_GetItemCountsNegativeFromTheEnd ==
    call.op = "getitem" =>
        LET n == Len(squares) IN
        IF 0 <= call.arg /\ call.arg < n
        THEN outcome.kind = "return" /\ outcome.value.index = call.arg
        ELSE IF 0 - n <= call.arg /\ call.arg < 0
        THEN outcome.kind = "return" /\ outcome.value.index = n + call.arg
        ELSE outcome = Raise("IndexError")

\* maze[-1] has returned the last square of a maze of two squares
C14_Witness ==
    /\ call.op = "getitem"
    /\ call.arg = 0 - 1
    /\ Len(squares) = 2
    /\ outcome.kind = "return"
    /\ outcome.value.index = 1

\* maze[n] and maze[-n - 1] fail
C14_WitnessOutside ==
    /\ call.op = "getitem"
    /\ call.arg \in {Len(squares), 0 - Len(squares) - 1}
    /\ outcome = Raise("IndexError")


(* ---------------------------------------------------------------------- *)
(* persistence/serializer.py and persistence/file_format.py                *)
(* ---------------------------------------------------------------------- *)
\* b"MAZE"
MAGIC_NUMBER == <<77, 65, 90, 69>>

FORMAT_VERSION == 1

\* The | and & of two non-negative integers, bit by bit
RECURSIVE Or(_, _)
Or(a, b) ==
    IF a = 0 THEN b
    ELSE IF b = 0 THEN a
    ELSE (IF a % 2 = 1 \/ b % 2 = 1 THEN 1 ELSE 0) + 2 * Or(a \div 2, b \div 2)

RECURSIVE And(_, _)
And(a, b) ==
    IF a = 0 \/ b = 0 THEN 0
    ELSE (IF a % 2 = 1 /\ b % 2 = 1 THEN 1 ELSE 0) + 2 * And(a \div 2, b \div 2)

\* a << k and a >> k
RECURSIVE ShiftLeft(_, _)
ShiftLeft(a, k) == IF k = 0 THEN a ELSE ShiftLeft(2 * a, k - 1)

RECURSIVE ShiftRight(_, _)
ShiftRight(a, k) == IF k = 0 THEN a ELSE ShiftRight(a \div 2, k - 1)

\* As compress, but the role is shifted by three bits only
compress_ShiftByThree(square) == Or(ShiftLeft(square.role, 3), square.border)

\* (square.role << 4) | square.border.value
compress(square) == Or(ShiftLeft(square.role, 4), square.border)

\* As decompress, but with the high bits taken as a role whatever they are
decompress_AnyRole(square_value) ==
    Return([border |-> And(square_value, 15), role |-> ShiftRight(square_value, 4)])

\* Border(square_value & 0xF), Role(square_value >> 4); Role() of a value
\* that is no member raises ValueError
decompress(square_value) ==
    IF ShiftRight(square_value, 4) \in Role
    THEN Return([border |-> And(square_value, 15), role |-> ShiftRight(square_value, 4)])
    ELSE Raise("ValueError")

\* struct.pack("<I", n) and struct.unpack("<I", b): four bytes, the lowest first
PackI(n) == <<n % 256, (n \div 256) % 256, (n \div 65536) % 256, (n \div 16777216) % 256>>
UnpackI(b) == b[1] + 256 * b[2] + 65536 * b[3] + 16777216 * b[4]

\* file.read(n) at offset pos (bytes before it read already): at most n bytes
Read(bytes, pos, n) ==
    SubSeq(bytes, pos + 1, IF pos + n <= Len(bytes) THEN pos + n ELSE Len(bytes))

\* serialize and the two writes of dump_squares: the bytes of the file
dump_squares(w, h, sqs) ==
    MAGIC_NUMBER \o <<FORMAT_VERSION>> \o PackI(w) \o PackI(h)
        \o [i \in 1..Len(sqs) |-> compress(sqs[i])]

\* FileHeader.read: the header, or the exception it leaves with.  A read that
\* comes back short fails the comparison with the magic number, or struct.unpack.
FileHeaderRead(bytes) ==
    IF Read(bytes, 0, 4) # MAGIC_NUMBER THEN Raise("AssertionError")
    ELSE IF Len(Read(bytes, 4, 1)) # 1 THEN Raise("struct.error")
    ELSE IF Len(Read(bytes, 5, 8)) # 8 THEN Raise("struct.error")
    ELSE Return([format_version |-> bytes[5],
                 width |-> UnpackI(Read(bytes, 5, 4)),
                 height |-> UnpackI(Read(bytes, 9, 4))])

\* As VersionSupported, but every version is taken
VersionSupported_Any(header) == TRUE

\* header.format_version != FORMAT_VERSION raises ValueError
VersionSupported(header) == header.format_version = FORMAT_VERSION

\* FileBody.read: file.read(header.width * header.height) after the header
FileBodyRead(header, bytes) == Read(bytes, 13, header.width * header.height)


\* Mazes that construction accepts
CodecMazes == {sqs \in GeometryInputs : Maze(sqs).kind = "return"} \cup RoleInputs \cup {Miniature}

\* The longest body of a file that no dump has written
MaxBody == 2

\* Files that no dump has written: the magic number or another four bytes, a
\* version, any width and height, and a body of plain squares, squares with
\* a role and walls, and bytes that hold no role
OtherMagics == {<<77, 65, 90, 70>>, <<109, 97, 122, 101>>}

BodyBytes == {0, 35, 112, 255}

WholeFiles ==
    {magic \o <<version>> \o PackI(w) \o PackI(h) \o values :
        magic \in {MAGIC_NUMBER} \cup OtherMagics,
        version \in 0..2,
        w \in {0, 1, 2, 256},
        h \in 0..2,
        values \in UNION {[1..n -> BodyBytes] : n \in 0..MaxBody}}

\* Files that end inside the header
ShortFiles ==
    {SubSeq(MAGIC_NUMBER \o <<version>> \o PackI(1) \o PackI(1), 1, n) :
        version \in 1..2, n \in 0..12}

InitCodec ==
    /\ \/ squares \in CodecMazes /\ file = <<>>
       \/ squares = <<>> /\ file \in WholeFiles \cup ShortFiles
    /\ pc = "idle"
    /\ graph = EmptyGraph
    /\ bd = BDIdle
    /\ dj = DJIdle
    /\ best = Unset
    /\ all = Unset
    /\ nodes = {}
    /\ candidate = <<>>
    /\ made = Unset
    /\ cache = IF squares = <<>> THEN EmptyCache ELSE NewCache(squares)
    /\ call = NoCall
    /\ outcome = Unset
    /\ load = LoadIdle
    /\ previous = Unset
    /\ pending = <<>>
    /\ second = NoSecond

\* maze.dump(path): dump_squares(self.width, self.height, self.squares, path)
DumpCall ==
    /\ squares # <<>>
    /\ call = NoCall
    /\ outcome = Unset
    /\ load.pc = "idle"
    /\ call' = [op |-> "dump", arg |-> <<>>]
    /\ file' = dump_squares(cache.width[1], cache.height[1], squares)
    /\ UNCHANGED <<squares, pc, graph, bd, dj, best, all, nodes, construction,
                   cache, outcome, load, previous, pending, second>>

\* Maze.load(path), load_squares: the file is opened and FileHeader.read runs
LoadHeader ==
    /\ load.pc = "idle"
    /\ outcome = Unset
    /\ IF FileHeaderRead(file).kind = "raise"
       THEN outcome' = FileHeaderRead(file) /\ load' = load
       ELSE /\ load' = [load EXCEPT !.pc = "header", !.header = FileHeaderRead(file).value]
            /\ outcome' = outcome
    /\ UNCHANGED <<squares, pc, graph, bd, dj, best, all, nodes, construction,
                   cache, call, file, previous, pending, second>>

\* load_squares: the version is compared, then FileBody.read runs and the
\* generator of deserialize is returned
LoadBody ==
    /\ load.pc = "header"
    /\ IF ~VersionSupported(load.header)
       THEN outcome' = Raise("ValueError") /\ load' = [load EXCEPT !.pc = "idle"]
       ELSE /\ load' = [load EXCEPT !.pc = "body", !.body = FileBodyRead(load.header, file)]
            /\ outcome' = outcome
    /\ UNCHANGED <<squares, pc, graph, bd, dj, best, all, nodes, construction,
                   cache, call, file, previous, pending, second>>

\* tuple(...) takes the next Square from deserialize
LoadSquare ==
    /\ load.pc = "body"
    /\ Len(load.cells) < Len(load.body)
    /\ LET index == Len(load.cells)
           row == index \div load.header.width
           column == index % load.header.width
           pair == decompress(load.body[index + 1])
       IN  IF pair.kind = "raise"
           THEN outcome' = pair /\ load' = [load EXCEPT !.pc = "idle"]
           ELSE /\ load' = [load EXCEPT !.cells = Append(load.cells,
                              Square(index, row, column, pair.value.border, pair.value.role))]
                /\ outcome' = outcome
    /\ UNCHANGED <<squares, pc, graph, bd, dj, best, all, nodes, construction,
                   cache, call, file, previous, pending, second>>

\* deserialize is exhausted: Maze(tuple(...))
LoadMaze ==
    /\ load.pc = "body"
    /\ Len(load.cells) = Len(load.body)
    /\ outcome' = Maze(load.cells)
    /\ load' = [load EXCEPT !.pc = "idle"]
    /\ UNCHANGED <<squares, pc, graph, bd, dj, best, all, nodes, construction,
                   cache, call, file, previous, pending, second>>

NextCodec == DumpCall \/ LoadHeader \/ LoadBody \/ LoadSquare \/ LoadMaze

SpecCodec == InitCodec /\ [][NextCodec]_vars

\* C15: a maze that construction has accepted, dumped to the file and loaded
\* from it, is loaded as a maze equal to it: the same number of squares, and
\* the same index, row, column, border and role for every square.
C15_LoadAfterDumpIsTheMaze ==
    (call.op = "dump" /\ outcome # Unset) => outcome = Return(squares)

\* The miniature maze has been dumped and loaded
C15_Witness ==
    /\ call.op = "dump"
    /\ squares = Miniature
    /\ outcome = Return(Miniature)

\* A maze of three squares has been dumped and a maze of two squares loaded
C15_WitnessShorter ==
    /\ call.op = "dump"
    /\ Len(squares) = 3
    /\ outcome.kind = "return"
    /\ Len(outcome.value) = 2

\* C16: the byte written for a square is role * 16 + border, within 0..255,
\* for every role 0..6 and every border 0..15, and the square decoded from
\* that byte has the same border and the same role.
C16_ByteIsRoleTimes16PlusBorder ==
    call.op = "dump" =>
        /\ \A i \in 1..Len(squares) :
            /\ file[13 + i] = squares[i].role * 16 + squares[i].border
            /\ file[13 + i] \in 0..255
        /\ \A i \in 1..Len(load.cells) :
            /\ load.cells[i].border = squares[i].border
            /\ load.cells[i].role = squares[i].role

\* A wall closed on every side has been written as 111 and decoded
C16_Witness ==
    /\ call.op = "dump"
    /\ Len(squares) = 1
    /\ squares[1].role = WALL
    /\ squares[1].border = 15
    /\ file[14] = 111
    /\ Len(load.cells) = 1

\* The first four bytes are the magic number; the version byte is there and
\* is not 1
MagicMatches == Read(file, 0, 4) = MAGIC_NUMBER
VersionDiffers == Len(file) >= 5 /\ file[5] # FORMAT_VERSION

\* C17: loading a file whose first four bytes differ from the magic number,
\* or whose version byte is not 1, fails with a failure of the header and
\* gives no maze; it fails before the body is read or any byte of it is
\* decoded, and a load gets past the header only when both match.
C17_HeaderIsCheckedBeforeTheBody ==
    /\ (~MagicMatches \/ VersionDiffers) =>
        /\ load.pc # "body"
        /\ load.body = <<>>
        /\ load.cells = <<>>
        /\ outcome # Unset =>
            outcome \in {Raise("AssertionError"), Raise("ValueError"), Raise("struct.error")}
    /\ load.pc = "body" => MagicMatches /\ Len(file) >= 5 /\ file[5] = FORMAT_VERSION

\* A file of version 2 with a body has failed to load with ValueError
C17_Witness ==
    /\ MagicMatches
    /\ VersionDiffers
    /\ Len(file) > 13
    /\ load.header.width * load.header.height > 0
    /\ outcome = Raise("ValueError")

\* A file with other first bytes has failed to load with AssertionError
C17_WitnessMagic ==
    /\ Len(file) > 13
    /\ ~MagicMatches
    /\ outcome = Raise("AssertionError")


(* ---------------------------------------------------------------------- *)
(* graphs/solver.py: solve_all called twice on the same maze               *)
(* ---------------------------------------------------------------------- *)
\* Mazes of two squares with any roles, and the larger mazes with one
\* entrance and one exit
AgainMazes == PairMazes \cup BlockMazes \cup BoardMazes \cup {Miniature}

InitAgain ==
    /\ squares \in AgainMazes
    /\ pc = "idle"
    /\ graph = EmptyGraph
    /\ bd = BDIdle
    /\ dj = DJIdle
    /\ best = Unset
    /\ all = Unset
    /\ nodes = {}
    /\ candidate = <<>>
    /\ made = Unset
    /\ cache = NewCache(squares)
    /\ call = NoCall
    /\ outcome = Unset
    /\ file = <<>>
    /\ load = LoadIdle
    /\ previous = Unset
    /\ pending = <<>>
    /\ second = NoSecond

\* The caller keeps what the first solve_all call has ended with and calls
\* solve_all on the same maze again
SolveAllAgainCall ==
    /\ pc = "idle"
    /\ all # Unset
    /\ previous = Unset
    /\ previous' = all
    /\ all' = Unset
    /\ pc' = "solve_all"
    /\ nodes' = get_nodes(squares)
    /\ graph' = make_graph(squares)
    /\ UNCHANGED <<squares, bd, dj, best, cache, construction, call, outcome,
                   file, load, pending, second>>

NextAgain ==
    \/ SolveAllCall
    \/ SolveAllStopIteration
    \/ SolveAllNodeNotFound
    \/ SolveAllSearch
    \/ DJIterate
    \/ DJFinish
    \/ SolveAllAgainCall

SpecAgain == InitAgain /\ [][NextAgain]_vars

\* Two outcomes of solve_all that are the same when the lists of solutions
\* are compared as sets
SameSolutions(a, b) ==
    /\ a.kind = b.kind
    /\ a.kind = "return" => Range(a.value) = Range(b.value)
    /\ a.kind # "return" => a = b

\* What a solve_all call reads of the maze: its squares and the cached
\* width, height, entrance and exit
CacheIsOfTheMaze(c) ==
    /\ c.width = <<width(squares)>>
    /\ c.height = <<height(squares)>>
    /\ Cached(c, "entrance") => c.entrance = <<entrance(squares)>>
    /\ Cached(c, "exit") => c.exit = <<exit(squares)>>

\* C18: a second solve_all call on the same maze ends as the first one did,
\* with the same set of solutions, and no step of a call changes what the
\* next call reads: the squares stay, and the width, height, entrance and
\* exit, once cached, stay and are the ones of the squares.
C18_SolveAllTwiceIsTheSame ==
    [][/\ squares' = squares
       /\ \A name \in DOMAIN cache : Cached(cache, name) => cache'[name] = cache[name]
       /\ CacheIsOfTheMaze(cache')
       /\ (previous' # Unset /\ all' # Unset) => SameSolutions(previous', all')]_vars

\* Both calls have returned the same two or more solutions, in another order
C18_Witness ==
    /\ previous.kind = "return"
    /\ all.kind = "return"
    /\ Len(all.value) >= 2
    /\ all.value # previous.value
    /\ Range(all.value) = Range(previous.value)

\* Both calls have returned the same one solution
C18_WitnessOne ==
    /\ previous.kind = "return"
    /\ all = previous
    /\ Len(all.value) = 1


(* ---------------------------------------------------------------------- *)
(* graphs/solver.py: two threads calling solve and solve_all on one maze   *)
(* ---------------------------------------------------------------------- *)
\* The locals of the running thread
Running ==
    [pc |-> pc, graph |-> graph, nodes |-> nodes, bd |-> bd, dj |-> dj,
     best |-> best, all |-> all, pending |-> pending]

\* As Yield, but the working state of _dijkstra_multisource is one for both
\* threads
Yield_SharedDijkstra ==
    /\ second' = [Running EXCEPT !.dj = second.dj]
    /\ pc' = second.pc
    /\ graph' = second.graph
    /\ nodes' = second.nodes
    /\ bd' = second.bd
    /\ best' = second.best
    /\ all' = second.all
    /\ pending' = second.pending
    /\ UNCHANGED <<squares, dj, cache, construction, call, outcome, file, load, previous>>

\* The interpreter switches threads: the running thread is suspended with its
\* locals and the other one runs on.  The maze and its cache are shared.
Yield ==
    /\ second' = Running
    /\ pc' = second.pc
    /\ graph' = second.graph
    /\ nodes' = second.nodes
    /\ bd' = second.bd
    /\ dj' = second.dj
    /\ best' = second.best
    /\ all' = second.all
    /\ pending' = second.pending
    /\ UNCHANGED <<squares, cache, construction, call, outcome, file, load, previous>>

\* cached_property.__get__ on a miss, first half: the property function has
\* run and its value is not stored yet.  maze.exit is read after maze.entrance.
PropertyCompute ==
    /\ pc \in {"solve", "solve_all"}
    /\ pending = <<>>
    /\ \E name \in {"entrance", "exit"} :
        /\ ~Cached(cache, name)
        /\ name = "exit" => Cached(cache, "entrance")
        /\ HasRole(squares, RoleOf(name))
        /\ pending' = <<[name |-> name, value |-> FirstWithRole(squares, RoleOf(name))]>>
    /\ UNCHANGED <<squares, pc, graph, bd, dj, best, all, nodes, cache, construction,
                   call, outcome, file, load, previous, second>>

\* Second half: the value is stored in the instance's __dict__, whatever
\* another thread may have stored there meanwhile
PropertyStore ==
    /\ pending # <<>>
    /\ cache' = [cache EXCEPT ![pending[1].name] = <<pending[1].value>>]
    /\ pending' = <<>>
    /\ UNCHANGED <<squares, pc, graph, bd, dj, best, all, nodes, construction,
                   call, outcome, file, load, previous, second>>

\* Mazes of two squares with any roles, open or closed between the two, and
\* two by two squares with the entrance and the exit in opposite corners:
\* open, with one passage closed, and cut into an upper and a lower half
InterleavedMazes ==
    {MazeOf(2, 1, b, r) : b \in {<<EMPTY, EMPTY>>, <<RIGHT, LEFT>>}, r \in [1..2 -> Role]}
    \cup {MazeOf(2, 2, BlockBorders(closed), <<ENTRANCE, a, b, EXIT>>) :
            closed \in {{}, {<<0, 1>>}, {<<0, 2>>, <<1, 3>>}},
            a \in {NONE, REWARD}, b \in {NONE, REWARD}}

InitInterleaved ==
    /\ squares \in InterleavedMazes
    /\ pc = "idle"
    /\ graph = EmptyGraph
    /\ bd = BDIdle
    /\ dj = DJIdle
    /\ best = Unset
    /\ all = Unset
    /\ nodes = {}
    /\ candidate = <<>>
    /\ made = Unset
    /\ cache = NewCache(squares)
    /\ call = NoCall
    /\ outcome = Unset
    /\ file = <<>>
    /\ load = LoadIdle
    /\ previous = Unset
    /\ pending = <<>>
    /\ second = NoSecond

\* A step of the running thread; a property read that has begun is finished
\* before the call goes on
NextInterleaved ==
    \/ pending = <<>> /\ SolveCall
    \/ pending = <<>> /\ SolveStopIteration
    \/ pending = <<>> /\ SolveNodeNotFound
    \/ pending = <<>> /\ SolveSearch
    \/ pending = <<>> /\ BDIterate
    \/ pending = <<>> /\ BDNoPath
    \/ pending = <<>> /\ SolveAllCall
    \/ pending = <<>> /\ SolveAllStopIteration
    \/ pending = <<>> /\ SolveAllNodeNotFound
    \/ pending = <<>> /\ SolveAllSearch
    \/ pending = <<>> /\ DJIterate
    \/ pending = <<>> /\ DJFinish
    \/ PropertyCompute
    \/ PropertyStore
    \/ Yield

SpecInterleaved == InitInterleaved /\ [][NextInterleaved]_vars

\* What bidirectional_dijkstra, run to its end from the state st without any
\* other call, makes solve return or raise: one outcome for every order in
\* which the neighbours can be iterated
RECURSIVE BDRun(_, _)
BDRun(G, st) ==
    IF st.fringe[1] = <<>> \/ st.fringe[2] = <<>> THEN {ReturnNone}
    ELSE LET dir == 1 - st.dir
             k == dir + 1
             top == HeapTop(st.fringe[k])
             dist == st.fringe[k][top].dist
             v == st.fringe[k][top].node
             popped == [st EXCEPT !.dir = dir, !.fringe[k] = HeapRemove(@, top)]
             scanned == [popped EXCEPT !.dists[k] = Put(@, v, dist)]
         IN  IF v \in DOMAIN st.dists[k] THEN BDRun(G, popped)
             ELSE IF v \in DOMAIN st.dists[3 - k] THEN {SolveReturn(st.finalpath)}
             ELSE UNION {LET relaxed == BDRelax(G, scanned, dir, v, order) IN
                         IF relaxed.error THEN {Raise("ValueError")} ELSE BDRun(G, relaxed)
                         : order \in Orders(neighs(G, dir, v))}

\* The outcomes of solve(maze) run alone
SolveAlone ==
    IF ~HasEnds THEN {Raise("StopIteration")}
    ELSE LET G == make_graph(squares) IN
         IF Source \notin G.node \/ Target \notin G.node THEN {ReturnNone}
         ELSE BDRun(G, BDStart(Source, Target))

\* The same for _dijkstra_multisource and solve_all
RECURSIVE DJRun(_, _)
DJRun(G, st) ==
    IF st.fringe = <<>>
    THEN {IF Target \notin DOMAIN st.pred THEN Return(<<>>)
          ELSE SolveAllReturn(build_paths_from_predecessors({Source}, Target, st.pred))}
    ELSE LET top == HeapTop(st.fringe)
             d == st.fringe[top].dist
             v == st.fringe[top].node
             popped == [st EXCEPT !.fringe = HeapRemove(@, top)]
             scanned == [popped EXCEPT !.dist = Put(@, v, d)]
         IN  IF v \in DOMAIN st.dist THEN DJRun(G, popped)
             ELSE UNION {LET relaxed == DJRelax(G, scanned, v, order) IN
                         IF relaxed.error THEN {Raise("ValueError")} ELSE DJRun(G, relaxed)
                         : order \in Orders(succ(G, v))}

\* The outcomes of solve_all(maze) run alone
SolveAllAlone ==
    IF ~HasEnds THEN {Raise("StopIteration")}
    ELSE LET G == make_graph(squares) IN
         IF Source \notin G.node THEN {Return(<<>>)}
         ELSE DJRun(G, DJStart(Source))

\* C19: with the steps of two threads interleaved in any way, every solve
\* and solve_all call ends with an outcome it can end with when it runs
\* alone; no step changes the squares, and a step that writes the cached
\* width, height, entrance or exit writes the value computed from the
\* squares, the same for every call.
C19_InterleavedCallsEndAsAlone ==
    [][/\ squares' = squares
       /\ \A name \in DOMAIN cache : Cached(cache, name) => cache'[name] = cache[name]
       /\ CacheIsOfTheMaze(cache')
       /\ \A b \in {best', second'.best} \ {Unset, best, second.best} : b \in SolveAlone
       /\ \A a \in {all', second'.all} \ {Unset, all, second.all} : a \in SolveAllAlone]_vars

\* A solve call has returned a solution while the solve_all call of the other
\* thread is in the middle of its search
C19_Witness ==
    /\ best.kind = "return"
    /\ second.pc = "dijkstra"
    /\ DOMAIN second.dj.dist # {}
    /\ second.dj.fringe # <<>>

\* A thread is about to store an entrance that the other thread has stored
\* since this thread found none cached
C19_WitnessStore ==
    /\ pending # <<>>
    /\ pending[1].name = "entrance"
    /\ Cached(cache, "entrance")
    /\ second.pc \in {"dijkstra", "bidirectional_dijkstra"}


(* ---------------------------------------------------------------------- *)
(* graphs/converter.py: get_edges and make_graph called on their own       *)
(* ---------------------------------------------------------------------- *)
\* Rows and columns of three squares with every border of the palette
LineMazes ==
    {MazeOf(3, 1, b, r) : b \in [1..3 -> PaletteBorders], r \in LineRoles(3)}
    \cup {MazeOf(1, 3, b, r) : b \in [1..3 -> PaletteBorders], r \in LineRoles(3)}

GraphMazes == Mazes \cup LineMazes

InitGraph ==
    /\ squares \in GraphMazes
    /\ pc = "idle"
    /\ graph = EmptyGraph
    /\ bd = BDIdle
    /\ dj = DJIdle
    /\ best = Unset
    /\ all = Unset
    /\ nodes = {}
    /\ candidate = <<>>
    /\ made = Unset
    /\ cache = NewCache(squares)
    /\ call = NoCall
    /\ outcome = Unset
    /\ file = <<>>
    /\ load = LoadIdle
    /\ previous = Unset
    /\ pending = <<>>
    /\ second = NoSecond

\* get_edges(maze, get_nodes(maze))
GetEdgesCall ==
    /\ call = NoCall
    /\ call' = [op |-> "get_edges", arg |-> <<>>]
    /\ nodes' = get_nodes(squares)
    /\ outcome' = Return(get_edges(squares, get_nodes(squares)))
    /\ UNCHANGED <<squares, pc, graph, bd, dj, best, all, construction, cache,
                   file, load, previous, pending, second>>

\* make_graph(maze)
MakeGraphCall ==
    /\ call = NoCall
    /\ call' = [op |-> "make_graph", arg |-> <<>>]
    /\ nodes' = get_nodes(squares)
    /\ graph' = make_graph(squares)
    /\ outcome' = Return(<<>>)
    /\ UNCHANGED <<squares, pc, bd, dj, best, all, construction, cache,
                   file, load, previous, pending, second>>

NextGraph == GetEdgesCall \/ MakeGraphCall

SpecGraph == InitGraph /\ [][NextGraph]_vars

\* The square in a row and a column of the maze
At(row, column) == squares[row * width(squares) + column + 1]

\* t is the nearest node to the right of the node s in its row, and no square
\* from s to the left neighbour of t has a RIGHT border
NearestRight(s, t) ==
    LET S == Sq(squares, s)
        T == Sq(squares, t)
    IN  /\ S.row = T.row
        /\ S.column < T.column
        /\ \A c \in (S.column + 1)..(T.column - 1) : At(S.row, c).index \notin nodes
        /\ \A c \in S.column..(T.column - 1) : ~HasBit(At(S.row, c).border, RIGHT)

\* The same downwards, with the column and BOTTOM
NearestBelow(s, t) ==
    LET S == Sq(squares, s)
        T == Sq(squares, t)
    IN  /\ S.column = T.column
        /\ S.row < T.row
        /\ \A r \in (S.row + 1)..(T.row - 1) : At(r, S.column).index \notin nodes
        /\ \A r \in S.row..(T.row - 1) : ~HasBit(At(r, S.column).border, BOTTOM)

\* C20: the edges that the scan records are exactly the pairs (S, T) of
\* nodes with T the nearest node to the right of S in its row and no RIGHT
\* border from S to the left neighbour of T, or T the nearest node below S
\* in its column and no BOTTOM border from S to the upper neighbour of T; no
\* edge is recorded where a border comes first or the last column or row is
\* reached, and the squares strictly between S and T are no nodes.
C20_EdgesJoinNearestNodesWithoutBorder ==
    call.op = "get_edges" =>
        /\ outcome.value =
              {e \in nodes \X nodes : NearestRight(e[1], e[2]) \/ NearestBelow(e[1], e[2])}
        /\ \A e \in outcome.value :
              \A i \in 0..(Len(squares) - 1) :
                  LET S == Sq(squares, e[1])
                      T == Sq(squares, e[2])
                      M == Sq(squares, i)
                  IN  (\/ M.row = S.row /\ M.row = T.row /\ S.column < M.column /\ M.column < T.column
                       \/ M.column = S.column /\ M.column = T.column /\ S.row < M.row /\ M.row < T.row)
                      => ~IsNode(M)

\* An edge has been recorded across a square that is no node, and no edge
\* from a node whose walk has met a RIGHT border on such a square
C20_Witness ==
    /\ call.op = "get_edges"
    /\ Len(squares) = 3
    /\ width(squares) = 3
    /\ \E s \in nodes : <<s, s + 2>> \in outcome.value

\* The walk from a node has met a RIGHT border on the next square, which is
\* no node: no edge from that node although a node follows
C20_WitnessBorder ==
    /\ call.op = "get_edges"
    /\ Len(squares) = 3
    /\ width(squares) = 3
    /\ nodes = {0, 2}
    /\ HasBit(squares[2].border, RIGHT)
    /\ ~HasBit(squares[1].border, RIGHT)
    /\ outcome.value = {}


(* ---------------------------------------------------------------------- *)
(* The walk of get_edges in the two directions it does not take            *)
(* ---------------------------------------------------------------------- *)
\* Leftwards from a node: a LEFT border of the square reached so far stops
\* the walk, the first node reached is recorded
RECURSIVE FollowLeft(_, _, _, _, _)
FollowLeft(sqs, ns, source, node, x_pos) ==
    IF x_pos < 0 THEN {}
    ELSE IF HasBit(node.border, LEFT) THEN {}
    ELSE LET following == sqs[node.row * width(sqs) + x_pos + 1] IN
         IF following.index \in ns THEN {<<source, following.index>>}
         ELSE FollowLeft(sqs, ns, source, following, x_pos - 1)

\* Upwards, with TOP
RECURSIVE FollowUp(_, _, _, _, _)
FollowUp(sqs, ns, source, node, y_pos) ==
    IF y_pos < 0 THEN {}
    ELSE IF HasBit(node.border, TOP) THEN {}
    ELSE LET following == sqs[y_pos * width(sqs) + node.column + 1] IN
         IF following.index \in ns THEN {<<source, following.index>>}
         ELSE FollowUp(sqs, ns, source, following, y_pos - 1)

\* The edges of the walks in all four directions from every node
FourWayEdges(sqs, ns) ==
    UNION {FollowRight(sqs, ns, s, Sq(sqs, s), Sq(sqs, s).column + 1)
           \cup FollowDown(sqs, ns, s, Sq(sqs, s), Sq(sqs, s).row + 1)
           \cup FollowLeft(sqs, ns, s, Sq(sqs, s), Sq(sqs, s).column - 1)
           \cup FollowUp(sqs, ns, s, Sq(sqs, s), Sq(sqs, s).row - 1) : s \in ns}

\* Edges without their direction
Undirected(edges) == {{e[1], e[2]} : e \in edges}

\* Every wall between two squares is a border of both: RIGHT of the left
\* one and LEFT of the right one, BOTTOM of the upper and TOP of the lower
ConsistentWalls(sqs) ==
    \A i \in 1..Len(sqs) : \A j \in 1..Len(sqs) :
        /\ (sqs[i].row = sqs[j].row /\ sqs[j].column = sqs[i].column + 1)
              => (HasBit(sqs[i].border, RIGHT) <=> HasBit(sqs[j].border, LEFT))
        /\ (sqs[i].column = sqs[j].column /\ sqs[j].row = sqs[i].row + 1)
              => (HasBit(sqs[i].border, BOTTOM) <=> HasBit(sqs[j].border, TOP))

\* C21 as stated: for every maze the edges of get_edges, without their
\* direction, are the edges of the walks in all four directions.
C21_RightAndDownIsFourWay ==
    call.op = "get_edges" =>
        Undirected(outcome.value) = Undirected(FourWayEdges(squares, nodes))

\* C21: for every maze whose walls are borders of both squares they lie
\* between, the edges that the rightward and downward walks record are,
\* without their direction, the edges of the walks in all four directions:
\* no leftward or upward connection is lost and none is added.
C21_RightAndDownIsFourWayOnConsistentWalls ==
    (call.op = "get_edges" /\ ConsistentWalls(squares)) =>
        Undirected(outcome.value) = Undirected(FourWayEdges(squares, nodes))

\* The edges of a two by two maze with consistent walls and one passage
\* closed have been recorded: three of the four
C21_Witness ==
    /\ call.op = "get_edges"
    /\ ConsistentWalls(squares)
    /\ Len(squares) = 4
    /\ nodes = 0..3
    /\ Cardinality(outcome.value) = 3

\* The right square has a LEFT border that the left one has no RIGHT border
\* for: the rightward walk has recorded the edge
C21_WitnessInconsistent ==
    /\ call.op = "get_edges"
    /\ Len(squares) = 2
    /\ width(squares) = 2
    /\ ~HasBit(squares[1].border, RIGHT)
    /\ HasBit(squares[2].border, LEFT)
    /\ outcome.value = {<<0, 1>>}


\* C22: the arcs of the graph are closed under flipping (A -> B is an arc
\* iff B -> A is), they are exactly the edges that the walks record together
\* with their flips, and every recorded edge gives exactly two arcs.
C22_ArcsAreEdgesAndFlips ==
    call.op = "make_graph" =>
        LET edges == get_edges(squares, nodes) IN
        /\ \A a \in 0..(Len(squares) - 1) : \A b \in 0..(Len(squares) - 1) :
              <<a, b>> \in Arcs(graph) <=> <<b, a>> \in Arcs(graph)
        /\ Arcs(graph) = edges \cup {<<e[2], e[1]>> : e \in edges}
        /\ Cardinality(Arcs(graph)) = 2 * Cardinality(edges)

\* The graph of the miniature maze has been made
C22_Witness ==
    /\ call.op = "make_graph"
    /\ squares = Miniature
    /\ <<8, 9>> \in Arcs(graph)
    /\ <<9, 8>> \in Arcs(graph)


\* |a|
Abs(a) == IF a < 0 THEN 0 - a ELSE a

\* The rows and columns between the two squares of an arc
Steps(e) ==
    Abs(Sq(squares, e[1]).row - Sq(squares, e[2]).row)
        + Abs(Sq(squares, e[1]).column - Sq(squares, e[2]).column)

\* C23: the weight of an arc A -> B is the distance - 1 when B is a REWARD,
\* the distance + 2 when B is an ENEMY and the distance for every other role
\* of B; two arcs of the same distance into squares of the same role have
\* the same weight, whatever the roles of their sources.
C23_WeightIsByDistanceAndTargetRole ==
    call.op = "make_graph" =>
        /\ \A e \in Arcs(graph) :
              graph.adj[e] = Steps(e) + (IF Sq(squares, e[2]).role = REWARD THEN 0 - 1
                                         ELSE IF Sq(squares, e[2]).role = ENEMY THEN 2
                                         ELSE 0)
        /\ \A e \in Arcs(graph) : \A f \in Arcs(graph) :
              (Steps(e) = Steps(f) /\ Sq(squares, e[2]).role = Sq(squares, f[2]).role)
                  => graph.adj[e] = graph.adj[f]

\* A graph with an arc from an enemy into a reward, of weight 0, and the arc
\* back, of weight 3
C23_Witness ==
    /\ call.op = "make_graph"
    /\ \E e \in Arcs(graph) :
          /\ Sq(squares, e[1]).role = ENEMY
          /\ Sq(squares, e[2]).role = REWARD
          /\ graph.adj[e] = 0
          /\ graph.adj[<<e[2], e[1]>>] = 3

\* Two arcs of the same distance into plain squares, one from a reward and
\* one from a plain square, have the same weight
C23_WitnessSources ==
    /\ call.op = "make_graph"
    /\ \E e \in Arcs(graph) : \E f \in Arcs(graph) :
          /\ Steps(e) = Steps(f)
          /\ Sq(squares, e[2]).role = NONE
          /\ Sq(squares, f[2]).role = NONE
          /\ Sq(squares, e[1]).role = REWARD
          /\ Sq(squares, f[1]).role \notin {REWARD, ENEMY}
          /\ graph.adj[e] = graph.adj[f]


\* The square of the sum that math.dist takes the root of
SquaredDistance(e) ==
    LET dr == Sq(squares, e[1]).row - Sq(squares, e[2]).row
        dc == Sq(squares, e[1]).column - Sq(squares, e[2]).column
    IN  dr * dr + dc * dc

\* C24: every edge that the walks record joins two distinct nodes of one row
\* or one column, the first strictly to the left of or strictly above the
\* second; the graph has no arc from a vertex to itself, and the distance of
\* every arc is a positive integer, the sum of the row and the column
\* difference.
C24_EdgesGoRightOrDownBetweenDistinctNodes ==
    /\ call.op = "get_edges" =>
          \A e \in outcome.value :
              LET A == Sq(squares, e[1])
                  B == Sq(squares, e[2])
              IN  /\ {e[1], e[2]} \subseteq nodes
                  /\ e[1] # e[2]
                  /\ \/ A.row = B.row /\ A.column < B.column
                     \/ A.column = B.column /\ A.row < B.row
    /\ call.op = "make_graph" =>
          \A e \in Arcs(graph) :
              /\ e[1] # e[2]
              /\ SquaredDistance(e) = Steps(e) * Steps(e)
              /\ distance(squares, e) = Steps(e)
              /\ distance(squares, e) > 0

\* An edge to the right and an edge downwards have been recorded, the first
\* across a square that is no node
C24_Witness ==
    /\ call.op = "get_edges"
    /\ squares = Miniature
    /\ <<8, 9>> \in outcome.value
    /\ \E e \in outcome.value : Sq(squares, e[2]).row >= Sq(squares, e[1]).row + 2

\* An arc of distance 2 is in the graph
C24_WitnessArc ==
    /\ call.op = "make_graph"
    /\ \E e \in Arcs(graph) : distance(squares, e) = 2


\* C25: with the default bonus and penalty no arc of the graph has a weight
\* below 0, and an arc of weight 0 is an arc of distance 1 into a REWARD
\* square, so the searches by weight never meet a negative weight.
C25_WeightsAreNotNegative ==
    call.op = "make_graph" =>
        \A e \in Arcs(graph) :
            /\ graph.adj[e] >= 0
            /\ graph.adj[e] = 0 =>
                  (distance(squares, e) = 1 /\ Sq(squares, e[2]).role = REWARD)

\* The graph has an arc of weight 0
C25_Witness ==
    /\ call.op = "make_graph"
    /\ \E e \in Arcs(graph) : graph.adj[e] = 0


\* The squares that lie strictly between the two ends of an edge
Between(e) ==
    LET A == Sq(squares, e[1])
        B == Sq(squares, e[2])
        Within(lo, x, hi) == (lo < x /\ x < hi) \/ (hi < x /\ x < lo)
    IN  {i \in 0..(Len(squares) - 1) :
            \/ /\ Sq(squares, i).row = A.row
               /\ A.row = B.row
               /\ Within(A.column, Sq(squares, i).column, B.column)
            \/ /\ Sq(squares, i).column = A.column
               /\ A.column = B.column
               /\ Within(A.row, Sq(squares, i).row, B.row)}

\* C26: no arc of the graph crosses a blocked square: no square strictly
\* between the two ends of an arc has the role WALL or EXTERIOR.
C26_NoArcCrossesWallOrExterior ==
    call.op = "make_graph" =>
        \A e \in Arcs(graph) :
            \A i \in Between(e) : Sq(squares, i).role \notin {WALL, EXTERIOR}

\* The graph of a row ENTRANCE, WALL, EXIT without borders has been made, and
\* its arc from the entrance to the exit lies over the WALL square
C26_Witness ==
    /\ call.op = "make_graph"
    /\ squares = MazeOf(3, 1, [i \in 1..3 |-> EMPTY],
                        [i \in 1..3 |-> IF i = 1 THEN ENTRANCE
                                        ELSE IF i = 2 THEN WALL ELSE EXIT])
    /\ <<0, 2>> \in Arcs(graph)
    /\ 1 \in Between(<<0, 2>>)


\* No index occurs twice in the path
Simple(path) == \A i \in 1..Len(path) : \A j \in 1..Len(path) : path[i] = path[j] => i = j

\* Two vertices joined by arcs of weight 0 in both directions
ZeroCycles(G) ==
    {e \in Arcs(G) : G.adj[e] = 0 /\ <<e[2], e[1]>> \in Arcs(G) /\ G.adj[<<e[2], e[1]>>] = 0}

\* C27: every path returned by solve or solve_all is a simple path of the
\* graph built from the maze: each consecutive pair of its squares is an arc,
\* and no square occurs twice in it, also when the graph has arcs or cycles
\* of weight 0.
C27_ReturnedPathsAreSimplePaths ==
    LET G == make_graph(squares) IN
    /\ best.kind = "return" =>
          IsPath(G, Indices(best.value)) /\ Simple(Indices(best.value))
    /\ all.kind = "return" =>
          \A i \in 1..Len(all.value) :
              IsPath(G, Indices(all.value[i])) /\ Simple(Indices(all.value[i]))

\* solve_all has returned a path along both vertices of a cycle of weight 0
C27_Witness ==
    /\ all.kind = "return"
    /\ \E i \in 1..Len(all.value) : \E e \in ZeroCycles(make_graph(squares)) :
          {e[1], e[2]} \subseteq Range(Indices(all.value[i]))

\* solve has returned a path over a vertex of a cycle of weight 0
C27_WitnessBest ==
    /\ best.kind = "return"
    /\ \E e \in ZeroCycles(make_graph(squares)) : e[1] \in Range(Indices(best.value))


\* C28: on a maze with an ENTRANCE and an EXIT square the validation of
\* Solution never fails on a path of the searches: solve ends with None or
\* with a Solution that passes the validation, solve_all with a list (empty
\* or not) of such Solutions; neither ends with an exception.
C28_SearchedPathsPassTheValidation ==
    HasEnds =>
        /\ best.kind \in {"unset", "none", "return"}
        /\ best.kind = "return" => SolutionPostInit(best.value) = "ok"
        /\ all.kind \in {"unset", "return"}
        /\ all.kind = "return" =>
              \A i \in 1..Len(all.value) : SolutionPostInit(all.value[i]) = "ok"

\* Both searches have ended on a maze with both ends, solve with a Solution
\* of a turning path and solve_all with several Solutions
C28_Witness ==
    /\ HasEnds
    /\ best.kind = "return"
    /\ \E i \in 1..(Len(best.value) - 2) :
          /\ best.value[i].row # best.value[i + 2].row
          /\ best.value[i].column # best.value[i + 2].column
    /\ all.kind = "return"
    /\ Len(all.value) >= 2

\* solve has ended with None and solve_all with the empty list on a maze with
\* both ends
C28_WitnessNone ==
    /\ HasEnds
    /\ best.kind = "none"
    /\ all.kind = "return"
    /\ all.value = <<>>


\* C29: every Solution has at least two squares: the construction from the
\* empty tuple fails, and the construction from one square fails, since one
\* square has one role and cannot be both ENTRANCE and EXIT.
C29_SolutionHasAtLeastTwoSquares ==
    made # Unset =>
        /\ made.kind = "return" => Len(made.value) >= 2
        /\ Len(candidate) = 0 => made = Raise("IndexError")
        /\ Len(candidate) = 1 => made = Raise("AssertionError")

\* The construction from the entrance square alone has failed
C29_Witness ==
    /\ candidate = <<entrance(Miniature)>>
    /\ made.kind = "raise"

\* The construction from the exit square alone, and the one from the empty
\* tuple, have failed
C29_WitnessExit ==
    /\ candidate = <<exit(Miniature)>>
    /\ made.kind = "raise"

C29_WitnessEmpty ==
    /\ candidate = <<>>
    /\ made.kind = "raise"


\* C30: decoding rejects the roles it does not know: a byte whose upper four
\* bits are 7..15 makes the load fail with ValueError and gives no square, so
\* every square that a load produces has one of the seven roles and a border
\* in 0..15, the upper and the lower four bits of its byte.  (decompress is
\* looked at for every byte once the header of a file has been read.)
C30_DecodingRejectsUnknownRoles ==
    /\ load.pc = "header" =>
          \A value \in 0..255 :
              IF value \div 16 \in 7..15 THEN decompress(value) = Raise("ValueError")
              ELSE decompress(value) = Return([border |-> value % 16, role |-> value \div 16])
    /\ \A i \in 1..Len(load.cells) :
          /\ load.body[i] \div 16 \notin 7..15
          /\ load.cells[i].role \in Role
          /\ load.cells[i].role = load.body[i] \div 16
          /\ load.cells[i].border \in 0..15
          /\ load.cells[i].border = load.body[i] % 16
    /\ (load.pc = "idle" /\ Len(load.cells) < Len(load.body)) =>
          /\ load.body[Len(load.cells) + 1] \div 16 \in 7..15
          /\ outcome = Raise("ValueError")
    /\ (load.pc = "idle" /\ load.body # <<>> /\ \E i \in 1..Len(load.body) : load.body[i] \div 16 \in 7..15)
          => outcome = Raise("ValueError")

\* A load has decoded one square and has failed on the next byte, which holds
\* the role 15
C30_Witness ==
    /\ load.pc = "idle"
    /\ Len(load.cells) = 1
    /\ Len(load.body) = 2
    /\ load.body[2] = 255
    /\ outcome = Raise("ValueError")

\* A load has failed on a byte of role 7 and no walls
C30_WitnessSeven ==
    /\ load.pc = "idle"
    /\ load.cells = <<>>
    /\ load.body # <<>>
    /\ load.body[1] = 112
    /\ outcome = Raise("ValueError")

====
